---- MODULE Spec2Model ----
(***************************************************************************)
(* A model of the E/B LAN service library: the Service facade with its     *)
(* pending-request table and retry loop, the router (routes and topic      *)
(* subscriptions), in-memory discovery and the frames exchanged between    *)
(* services.  Every action is one callback or one run of a handler between *)
(* two suspension points of the single-threaded event loop.                *)
(***************************************************************************)
EXTENDS Integers, Sequences, FiniteSets, Bags, TLC

(***************************************************************************)
(* Bounds of the model                                                     *)
(***************************************************************************)
\* number of request() calls made over a run
MaxCalls == 2
\* number of them made where a call takes any retries option (Spec)
MaxProbed == 1
\* largest retries value passed as an option (smaller ones, 0 and -1 too)
MaxRetriesOpt == 2
\* number of inbound frames whose handling is suspended at an await
MaxTasks == 3
\* number of publish() calls made over a run
MaxPubs == 1
\* number of handler invocations after which nobody subscribes any more
MaxInvoked == 3
\* number of EVENT frames a peer sends over a run
MaxEvents == 1
\* number of send() calls made on a transport object over a run
MaxSends == 3
\* number of connections a TCP server accepts over a run
MaxAccepts == 1
\* number of close() calls made on a transport object over a run
MaxCloses == 2
\* register() calls on one MulticastDiscovery, and heartbeat callbacks run
MaxRegisters == 2
MaxBeats == 2

(***************************************************************************)
(* Program constants                                                       *)
(***************************************************************************)
\* StatusCode enum
OK == 200
BAD_REQUEST == 400
NOT_FOUND == 404
INTERNAL_ERROR == 500
\* options.retries || 3
DefaultRetries == 3
\* the base of the backoff delay, in ms: 100 * Math.pow(2, i)
BaseDelay == 100
\* the ports of the two services of the example
PortA == 3000
PortB == 3001

\* MessageType enum
REQUEST == "request"
RESPONSE == "response"
EVENT == "event"

\* the services constructed in this process
\* the two services of the example
ExampleServices == {"service-a", "service-b"}
\* config.name is any string: a third service is named as RouterImpl.publish
\* names the origin of the messages it builds
Services == ExampleServices \cup {"publisher"}
DefaultHost == "127.0.0.1"

\* An optional value (a field that may be undefined) is <<>> or <<v>>.
Undefined == <<>>
Some(v) == <<v>>

\* JavaScript's x || d on an optional number: undefined and 0 are falsy.
OrElse(x, d) == IF x = Undefined \/ x[1] = 0 THEN d ELSE x[1]

RetriesOptions == {Undefined} \cup {Some(n) : n \in -1..MaxRetriesOpt}
CallIds == 1..MaxCalls

VARIABLES
  options,          \* the ServiceOptions each Service was constructed with
  started,          \* the services whose start() has completed
  registry,         \* per service, its discovery instance's services map
  pendingRequests,  \* per service, Service.pendingRequests: id -> entry
  calls,            \* per request() call, the state of its retry loop
  att,              \* per call, its latest sendRequest attempt
  stale,            \* per call, the earlier attempts whose send is in flight
  net,              \* frames accepted by a transport and not yet received
  routes,           \* per service, RouterImpl.routes: route -> handler
  subscriptions,    \* per service, RouterImpl.subscriptions: topic -> Set
  listeners,        \* per service, the 'error' listeners of RouterImpl.events
  tasks,            \* runs of handleIncomingMessage suspended at an await
  pubs,             \* runs of Service.publish
  invoked,          \* bag of handler invocations made so far
  handled,          \* the errors given to errorHandler.handle so far
  ignored,          \* the ids of the messages route() returned null for
  observed,         \* the errors given to an 'error' listener of a router
  transports,       \* per transport object, its server, sockets and cache
  stopped,          \* the services whose stop() has completed
  discovery         \* per service, the socket and the heartbeat timers of
                    \* its MulticastDiscovery

vars == <<options, started, registry, pendingRequests, calls, att, stale,
          net, routes, subscriptions, listeners, tasks, pubs, invoked, handled,
          ignored, observed, transports, stopped, discovery>>

(***************************************************************************)
(* Service construction                                                    *)
(***************************************************************************)
\* this.config as the constructor computes it from the options
Config(s) ==
  [name    |-> s,
   port    |-> options[s].port,
   host    |-> IF options[s].host = Undefined THEN DefaultHost ELSE options[s].host[1],
   retries |-> OrElse(options[s].retries, DefaultRetries)]

\* this.discovery as DiscoveryFactory creates it from options.discoveryType
DiscoveryType(s) ==
  IF options[s].discoveryType = Undefined THEN "local"
  ELSE options[s].discoveryType[1]

\* the target string `${host}:${port}` of a service descriptor
TargetOf(d) == <<d.host, d.port>>

\* a service of another process of the network, known by its announces
ExternalPeer ==
  [name |-> "service-x", port |-> PortA, host |-> "service-x",
   retries |-> DefaultRetries]

\* crypto.randomUUID() never returns the same id twice: the id of request
\* c, of the wire message of publish p, of the local message of publish p
ReqId(c) == c
PubId(p) == MaxCalls + 2 * p - 1
LocalId(p) == MaxCalls + 2 * p

\* A message: header {id, type, status, service, target} and payload.  A
\* missing header field is 0 or "".
Msg(id, type, status, service, target, payload) ==
  [id |-> id, type |-> type, status |-> status, service |-> service,
   target |-> target, payload |-> payload]

(***************************************************************************)
(* JSON protocol                                                           *)
(***************************************************************************)
\* JsonProtocol.serialize: the bytes of the JSON text of the message
Serialize(m) == [text |-> "json", msg |-> m]
Garbage == [text |-> "garbage", msg |-> Msg(0, "", 0, "", "", "")]

\* a deserialize that asks for header.id and header.type only
DeserializeAnyOrigin(d) ==
  IF d.text # "json"
  THEN [ok |-> FALSE, msg |-> d.msg, err |-> "Failed to deserialize message"]
  ELSE IF d.msg.id = 0 \/ d.msg.type = ""
  THEN [ok |-> FALSE, msg |-> d.msg, err |-> "Invalid message format"]
  ELSE [ok |-> TRUE, msg |-> d.msg, err |-> ""]

\* JsonProtocol.deserialize: the message, or a BAD_REQUEST error for bytes
\* that are no JSON text or lack header.id, header.type or header.service
Deserialize(d) ==
  IF d.text # "json"
  THEN [ok |-> FALSE, msg |-> d.msg, err |-> "Failed to deserialize message"]
  ELSE IF d.msg.id = 0 \/ d.msg.type = "" \/ d.msg.service = ""
  THEN [ok |-> FALSE, msg |-> d.msg, err |-> "Invalid message format"]
  ELSE [ok |-> TRUE, msg |-> d.msg, err |-> ""]

(***************************************************************************)
(* LocalDiscovery: the services map, in insertion order                    *)
(***************************************************************************)
Descriptors(s) == {registry[s][n] : n \in 1..Len(registry[s])}

\* LocalDiscovery.discover: the descriptor stored under the name, or null
Discover(s, name) ==
  IF \E d \in Descriptors(s) : d.name = name
  THEN Some(CHOOSE d \in Descriptors(s) : d.name = name)
  ELSE Undefined

\* a register that adds the descriptor and keeps the one the name had
\* a services map that holds the descriptor stored last and no other
RegistryOfOne(reg, d) == <<d>>
RegistryAppends(reg, d) == Append(reg, d)

\* LocalDiscovery.register: Map.set keeps the place of a name already there
RegistryWith(reg, d) ==
  IF \E n \in 1..Len(reg) : reg[n].name = d.name
  THEN [n \in 1..Len(reg) |-> IF reg[n].name = d.name THEN d ELSE reg[n]]
  ELSE Append(reg, d)

\* LocalDiscovery.register(service) on the discovery of s: it throws for a
\* descriptor without name, else stores the descriptor under its name
DiscoveryRegister(s, d) ==
  /\ registry' = [registry EXCEPT ![s] =
       IF d.name = "" THEN @ ELSE RegistryWith(@, d)]
  /\ UNCHANGED <<options, transports, stopped, discovery,
                 ignored, started, pendingRequests, calls, att, stale,
                 net, routes, subscriptions, listeners, tasks, pubs, invoked,
                 handled, observed>>

\* LocalDiscovery.close(): services.clear()
DiscoveryClose(s) ==
  /\ registry' = [registry EXCEPT ![s] = <<>>]
  /\ UNCHANGED <<options, transports, stopped, discovery,
                 ignored, started, pendingRequests, calls, att, stale,
                 net, routes, subscriptions, listeners, tasks, pubs, invoked,
                 handled, observed>>

\* a frame accepted by a transport for target `to`
Frame(to, data) == [to |-> to, data |-> data]

\* TCP: a send is accepted once a connection to the target stands, so
\* only if a server listens there
Listening(to) ==
  \/ to = TargetOf(ExternalPeer)
  \/ \E s \in started : TargetOf(Config(s)) = to

\* the frames in flight after a send was accepted; what leaves for
\* another process is not followed
Transmit(to, data) ==
  IF \E s \in Services : TargetOf(Config(s)) = to
  THEN net (+) SetToBag({Frame(to, data)})
  ELSE net

(***************************************************************************)
(* Service.request and Service.sendRequest                                 *)
(*                                                                         *)
(* Of the attempts of a call the program holds the closures of the latest  *)
(* one (att: its timer, its send, its promise) and of the earlier ones     *)
(* whose transport.send has not settled yet (stale: the attempt's number   *)
(* and what became of its timer).  An earlier attempt's promise is settled *)
(* and its timer is fired or cleared, or the loop would not have gone on.  *)
(***************************************************************************)
NoCall ==
  [st |-> "idle", caller |-> "", name |-> "", route |-> "", payload |-> "",
   opt |-> Undefined, retries |-> 0, to |-> <<"", 0>>, i |-> 0, sends |-> 0,
   status |-> 0, value |-> "", delay |-> 0, waited |-> 0]

NoAttempt ==
  [k |-> 0, timer |-> "none", send |-> "none", promise |-> "none",
   status |-> 0, value |-> ""]

\* a message built anew, with an id of its own, for each attempt
MessagePerAttempt(c) ==
  Msg(ReqId(c) + MaxCalls * att[c].k, REQUEST, 0, calls[c].caller,
      calls[c].route, calls[c].payload)

\* the message request() builds once, before its loop
RequestMessage(c) ==
  Msg(ReqId(c), REQUEST, 0, calls[c].caller, calls[c].route, calls[c].payload)

\* the attempt sendRequest() creates: its promise, its timer, its send
NewAttempt(k) ==
  [k |-> k, timer |-> "armed", send |-> "inflight", promise |-> "pending",
   status |-> 0, value |-> ""]

\* resolve(value) or reject(error) of an attempt's promise; settling a
\* promise a second time does nothing
AttemptAfter(a, kind, status, value) ==
  IF a.promise # "pending" THEN a
  ELSE [a EXCEPT !.promise = kind, !.status = status, !.value = value]

\* a backoff delay that is the same after every round
ConstantDelay(i) == BaseDelay

\* the backoff delay after the failed round i, in ms
BackoffDelay(i) == BaseDelay * 2^i

\* request()'s loop once the attempt it awaits has settled: return the
\* value, rethrow the error of the last round, or start the backoff delay
LoopAfter(cs, kind, status, value) ==
  IF kind = "resolved"
  THEN [cs EXCEPT !.st = "resolved", !.status = status, !.value = value]
  ELSE IF cs.i = cs.retries - 1
  THEN [cs EXCEPT !.st = "rejected", !.status = status, !.value = value]
  ELSE [cs EXCEPT !.st = "backoff", !.delay = BackoffDelay(cs.i)]

\* the call after resolve or reject of its latest attempt's promise
CallAfter(c, kind, status, value) ==
  IF att[c].promise # "pending" THEN calls[c]
  ELSE LoopAfter(calls[c], kind, status, value)

\* Map.delete
Without(m, key) == [x \in DOMAIN m \ {key} |-> m[x]]
\* Map.set
With(m, key, v) == [x \in DOMAIN m \cup {key} |-> IF x = key THEN v ELSE m[x]]

\* a request() that goes on into its loop without a descriptor
NullNotChecked(cs) ==
  [cs EXCEPT !.st = "attempt", !.sends = @ + 1]

\* discover() returned null
NotFound(cs) ==
  [cs EXCEPT !.st = "rejected", !.status = NOT_FOUND,
             !.value = "Service not found"]

\* discover() returned descriptor d: the loop's first round, or the throw
\* after a loop that made no round
Discovered(cs, d) ==
  IF ~(0 < cs.retries)
  THEN [cs EXCEPT !.st = "rejected", !.status = INTERNAL_ERROR,
                  !.value = "Request failed after retries"]
  ELSE [cs EXCEPT !.to = TargetOf(d), !.st = "attempt", !.sends = @ + 1]

\* The calls of new (call -> its record from now on) go on; each that
\* enters a round ("attempt") runs sendRequest(): arm the timer, store the
\* entry under the id, start the send.
SendRequest(new) ==
  LET entering == {c \in DOMAIN new : new[c].st = "attempt"}
      ids(s) == {ReqId(c) : c \in {b \in entering : new[b].caller = s}}
  IN /\ calls' = [c \in CallIds |-> IF c \in DOMAIN new THEN new[c] ELSE calls[c]]
     /\ att' = [c \in CallIds |->
          IF c \in entering THEN NewAttempt(att[c].k + 1) ELSE att[c]]
     /\ stale' = [c \in CallIds |->
          IF c \in entering /\ att[c].send = "inflight"
          THEN stale[c] \cup {[k |-> att[c].k, timer |-> att[c].timer]}
          ELSE stale[c]]
     /\ pendingRequests' = [s \in Services |->
          [x \in DOMAIN pendingRequests[s] \cup ids(s) |->
             IF x \in ids(s)
             THEN LET c == CHOOSE b \in entering : ReqId(b) = x
                  IN [call |-> c, k |-> att[c].k + 1]
             ELSE pendingRequests[s][x]]]

\* socket.send and socket.close throw on a dgram socket that is closed
NotRunning(s) == discovery[s].socket = "closed"

\* the query of discover() threw: request() rejects with that error
QueryFailed(cs) ==
  [cs EXCEPT !.st = "rejected", !.status = 0, !.value = "Not running"]

\* request(serviceName, route, payload, options) up to its first await
\* that waits: on the discovery (multicast, name not cached) or on the
\* first sendRequest
Request(s, c, name, route, payload, opt) ==
  /\ calls[c].st = "idle"
  /\ \A b \in CallIds : b < c => calls[b].st # "idle"
  /\ LET retries == OrElse(opt, Config(s).retries)
         cs == [NoCall EXCEPT !.caller = s, !.name = name, !.route = route,
                              !.payload = payload, !.opt = opt,
                              !.retries = retries]
     IN IF Discover(s, name) # Undefined
        THEN SendRequest(c :> Discovered(cs, Discover(s, name)[1]))
        ELSE IF DiscoveryType(s) = "multicast" /\ NotRunning(s)
        THEN SendRequest(c :> QueryFailed(cs))
        ELSE IF DiscoveryType(s) = "multicast"
        THEN SendRequest(c :> [cs EXCEPT !.st = "discover"])
        ELSE SendRequest(c :> NotFound(cs))
  /\ UNCHANGED <<options, transports, stopped, discovery,
                 ignored, started, registry, net, routes, subscriptions,
                 listeners, tasks, pubs, invoked, handled, observed>>

\* a backoff delay after which the loop does not go on
BackoffWithoutRound(c) ==
  /\ calls[c].st = "backoff"
  /\ UNCHANGED vars

\* the backoff delay of round i is over (waited: the delays the call has
\* waited so far, in ms): i++, next sendRequest
BackoffDone(c) ==
  /\ calls[c].st = "backoff"
  /\ SendRequest(c :> [calls[c] EXCEPT !.i = @ + 1, !.st = "attempt",
                                       !.sends = @ + 1,
                                       !.waited = @ + calls[c].delay])
  /\ UNCHANGED <<options, transports, stopped, discovery,
                 ignored, started, registry, net, routes, subscriptions,
                 listeners, tasks, pubs, invoked, handled, observed>>

(***************************************************************************)
(* MulticastDiscovery                                                      *)
(***************************************************************************)
\* an announce that resolves every waiting discover(), whatever its name
AnnounceSettlesAll(s, d) ==
  /\ DiscoveryType(s) = "multicast"
  /\ registry' = [registry EXCEPT ![s] = RegistryWith(@, d)]
  /\ SendRequest([c \in {b \in CallIds : /\ calls[b].st = "discover"
                                         /\ calls[b].caller = s} |->
                    Discovered(calls[c], d)])
  /\ UNCHANGED <<options, transports, stopped, discovery,
                 ignored, started, net, routes, subscriptions, listeners,
                 tasks, pubs, invoked, handled, observed>>

\* a service-announce datagram arrives on the socket, which is open: the
\* descriptor is stored under its name and every discover() waiting for
\* that name resolves with it
AnnounceArrives(s, d) ==
  /\ DiscoveryType(s) = "multicast"
  /\ discovery[s].socket = "open"
  /\ registry' = [registry EXCEPT ![s] = RegistryWith(@, d)]
  /\ SendRequest([c \in {b \in CallIds : /\ calls[b].st = "discover"
                                         /\ calls[b].caller = s
                                         /\ calls[b].name = d.name} |->
                    Discovered(calls[c], d)])
  /\ UNCHANGED <<options, transports, stopped, discovery,
                 ignored, started, net, routes, subscriptions, listeners,
                 tasks, pubs, invoked, handled, observed>>

\* the discovery timeout of a waiting discover(): it resolves with null
DiscoverTimeout(c) ==
  /\ calls[c].st = "discover"
  /\ calls' = [calls EXCEPT ![c] = NotFound(@)]
  /\ UNCHANGED <<options, transports, stopped, discovery,
                 ignored, started, registry, pendingRequests, att, stale, net,
                 routes, subscriptions, listeners, tasks, pubs, invoked,
                 handled, observed>>

(***************************************************************************)
(* Service.sendRequest: the callbacks of an attempt                        *)
(***************************************************************************)
\* a timer callback that deletes the entry and leaves the promise pending
TimerFireSilent(c) ==
  /\ att[c].timer = "armed"
  /\ pendingRequests' =
       [pendingRequests EXCEPT ![calls[c].caller] = Without(@, ReqId(c))]
  /\ att' = [att EXCEPT ![c].timer = "fired"]
  /\ UNCHANGED <<options, transports, stopped, discovery,
                 ignored, started, registry, net, routes, subscriptions,
                 listeners, tasks, pubs, invoked, handled, observed, stale,
                 calls>>

\* the timer callback of an attempt: delete the entry of the id, reject
TimerFire(c) ==
  /\ att[c].timer = "armed"
  /\ pendingRequests' =
       [pendingRequests EXCEPT ![calls[c].caller] = Without(@, ReqId(c))]
  /\ att' = [att EXCEPT ![c] =
       [AttemptAfter(@, "rejected", INTERNAL_ERROR, "Request timed out")
          EXCEPT !.timer = "fired"]]
  /\ calls' = [calls EXCEPT ![c] =
       CallAfter(c, "rejected", INTERNAL_ERROR, "Request timed out")]
  /\ UNCHANGED <<options, transports, stopped, discovery,
                 ignored, started, registry, net, routes, subscriptions,
                 listeners, tasks, pubs, invoked, handled, observed, stale>>

\* a clearTimeout that cancels nothing
TimerKept(t) == t

\* clearTimeout: an armed timer is cancelled, any other is left as it is
ClearTimeout(t) == IF t = "armed" THEN "cleared" ELSE t

\* a catch callback of transport.send that leaves the entry in the table
SendFailedKeepsEntry(c) ==
  /\ att[c].send = "inflight"
  /\ att' = [att EXCEPT ![c] =
       [AttemptAfter(@, "rejected", INTERNAL_ERROR, "Failed to send message")
          EXCEPT !.send = "failed", !.timer = ClearTimeout(@)]]
  /\ calls' = [calls EXCEPT ![c] =
       CallAfter(c, "rejected", INTERNAL_ERROR, "Failed to send message")]
  /\ UNCHANGED <<options, transports, stopped, discovery,
                 ignored, started, registry, net, routes, subscriptions,
                 listeners, tasks, pubs, invoked, handled, observed, stale,
                 pendingRequests>>

\* transport.send of the latest attempt rejected: the catch callback clears
\* the attempt's timer, deletes the entry of the id and rejects the promise
SendFailed(c) ==
  /\ att[c].send = "inflight"
  /\ pendingRequests' =
       [pendingRequests EXCEPT ![calls[c].caller] = Without(@, ReqId(c))]
  /\ att' = [att EXCEPT ![c] =
       [AttemptAfter(@, "rejected", INTERNAL_ERROR, "Failed to send message")
          EXCEPT !.send = "failed", !.timer = ClearTimeout(@)]]
  /\ calls' = [calls EXCEPT ![c] =
       CallAfter(c, "rejected", INTERNAL_ERROR, "Failed to send message")]
  /\ UNCHANGED <<options, transports, stopped, discovery,
                 ignored, started, registry, net, routes, subscriptions,
                 listeners, tasks, pubs, invoked, handled, observed, stale>>

\* transport.send of an earlier attempt rejected: the same catch callback;
\* its own timer is off and its own promise settled, and the entry it
\* deletes is the one stored under the id now
StaleSendFailed(c, e) ==
  /\ e \in stale[c]
  /\ stale' = [stale EXCEPT ![c] = @ \ {e}]
  /\ pendingRequests' =
       [pendingRequests EXCEPT ![calls[c].caller] = Without(@, ReqId(c))]
  /\ UNCHANGED <<options, transports, stopped, discovery,
                 ignored, started, registry, net, routes, subscriptions,
                 listeners, tasks, pubs, invoked, handled, observed, calls,
                 att>>

\* transport.send of the latest attempt resolved: the frame is on its way
SendAccepted(c) ==
  /\ att[c].send = "inflight"
  /\ Listening(calls[c].to)
  /\ att' = [att EXCEPT ![c].send = "ok"]
  /\ net' = Transmit(calls[c].to, Serialize(RequestMessage(c)))
  /\ UNCHANGED <<options, transports, stopped, discovery,
                 ignored, started, registry, pendingRequests, calls, routes,
                 subscriptions, listeners, tasks, pubs, invoked, handled,
                 observed, stale>>

\* transport.send of an earlier attempt resolved
StaleSendAccepted(c, e) ==
  /\ e \in stale[c]
  /\ Listening(calls[c].to)
  /\ stale' = [stale EXCEPT ![c] = @ \ {e}]
  /\ net' = Transmit(calls[c].to, Serialize(RequestMessage(c)))
  /\ UNCHANGED <<options, transports, stopped, discovery,
                 ignored, started, registry, pendingRequests, calls, routes,
                 subscriptions, listeners, tasks, pubs, invoked, handled,
                 observed, att>>

(***************************************************************************)
(* RouterImpl                                                              *)
(***************************************************************************)
Topics == {"notifications", "alerts"}
\* topic handlers: h1 throws, h2 returns
EventHandlers == {"h1", "h2"}
Throws(h) == h = "h1"
\* route handlers: greet is the example's handler, boom throws
RouteHandlers == {"greet", "boom"}

\* the example's handler: { greeting: `Hello, ${message.payload.name}!` }
Greeting(name) == "Hello, " \o name \o "!"

\* an EblanError as errorHandler.handle or a listener receives it
Err(s, status, value) == [svc |-> s, status |-> status, value |-> value]

\* one handler invocation: who ran it (run), and the message it was given
Invocation(s, h, run, m) ==
  [svc |-> s, h |-> h, run |-> run, id |-> m.id, service |-> m.service,
   topic |-> m.target, payload |-> m.payload]
Invoke(s, h, run, m) == invoked (+) SetToBag({Invocation(s, h, run, m)})

\* The iterator of `for (const handler of subscribers)`.  While the Set it
\* walks is the one stored under the topic (live), it has passed the first
\* pos entries of it; once unsubscribe(topic) has dropped that Set from
\* the map, nobody else holds it and rest are the entries still to visit.
\* cur is the handler being awaited, "" when the loop has ended.  began
\* keeps the entries the Set had when the loop began.
NoIter ==
  [topic |-> "", live |-> FALSE, pos |-> 0, rest |-> <<>>, cur |-> "",
   began |-> <<>>]

Remaining(s, it) ==
  IF it.live
  THEN SubSeq(subscriptions[s][it.topic], it.pos + 1,
              Len(subscriptions[s][it.topic]))
  ELSE it.rest

\* the iterator's next(): the first entry not yet passed, if any
Advance(s, it) ==
  IF Remaining(s, it) = <<>>
  THEN [it EXCEPT !.cur = ""]
  ELSE [it EXCEPT !.cur = Head(Remaining(s, it)),
                  !.pos = IF it.live THEN @ + 1 ELSE @,
                  !.rest = IF it.live THEN @ ELSE Tail(@)]

\* the iterator of a loop beginning over the Set stored under the topic,
\* at its first entry
Iter(s, topic) ==
  Advance(s, [NoIter EXCEPT !.topic = topic, !.live = TRUE,
                            !.began = subscriptions[s][topic]])

IndexOf(seq, x) == CHOOSE n \in 1..Len(seq) : seq[n] = x
Member(seq, x) == \E n \in 1..Len(seq) : seq[n] = x
\* a Set.delete that empties the Set
RemoveAll(seq, x) == <<>>
Remove(seq, x) ==
  [n \in 1..(Len(seq) - 1) |-> IF n < IndexOf(seq, x) THEN seq[n] ELSE seq[n + 1]]

\* Set.delete(h) as an iterator over that Set sees it: an entry removed
\* from the part already passed moves the iterator back by one
IterAfterDelete(s, topic, h, r) ==
  IF r.svc = s /\ r.it.live /\ r.it.topic = topic
     /\ IndexOf(subscriptions[s][topic], h) <= r.it.pos
  THEN [r EXCEPT !.it.pos = @ - 1]
  ELSE r

\* Map.delete(topic) as an iterator over the dropped Set sees it
IterAfterDrop(s, topic, r) ==
  IF r.svc = s /\ r.it.live /\ r.it.topic = topic
  THEN [r EXCEPT !.it.live = FALSE, !.it.rest = Remaining(s, r.it)]
  ELSE r

\* RouterImpl.register: routes.set(route, handler)
Register(s, route, h) ==
  /\ routes' = [routes EXCEPT ![s] = With(@, route, h)]
  /\ UNCHANGED <<options, transports, stopped, discovery,
                 ignored, started, registry, pendingRequests, calls, att, stale, net,
                 subscriptions, listeners, tasks, pubs, invoked, handled,
                 observed>>

\* RouterImpl.unregister: routes.delete(route)
Unregister(s, route) ==
  /\ route \in DOMAIN routes[s]
  /\ routes' = [routes EXCEPT ![s] = Without(@, route)]
  /\ UNCHANGED <<options, transports, stopped, discovery,
                 ignored, started, registry, pendingRequests, calls, att, stale, net,
                 subscriptions, listeners, tasks, pubs, invoked, handled,
                 observed>>

\* RouterImpl.subscribe: create the topic's Set if there is none, add
Subscribe(s, topic, h) ==
  /\ subscriptions' = [subscriptions EXCEPT ![s] =
       IF topic \notin DOMAIN @ THEN With(@, topic, <<h>>)
       ELSE IF Member(@[topic], h) THEN @
       ELSE With(@, topic, Append(@[topic], h))]
  /\ UNCHANGED <<options, transports, stopped, discovery,
                 ignored, started, registry, pendingRequests, calls, att, stale, net,
                 routes, listeners, tasks, pubs, invoked, handled, observed>>

\* RouterImpl.unsubscribe: nothing without a Set under the topic; with a
\* handler, delete it from the Set; without one, drop the topic
Unsubscribe(s, topic, h) ==
  /\ IF topic \notin DOMAIN subscriptions[s]
     THEN UNCHANGED <<subscriptions, tasks, pubs>>
     ELSE IF h # Undefined
     THEN IF Member(subscriptions[s][topic], h[1])
          THEN /\ subscriptions' = [subscriptions EXCEPT ![s][topic] =
                                      Remove(@, h[1])]
               /\ tasks' = [t \in DOMAIN tasks |->
                              IterAfterDelete(s, topic, h[1], tasks[t])]
               /\ pubs' = [p \in DOMAIN pubs |->
                              IterAfterDelete(s, topic, h[1], pubs[p])]
          ELSE UNCHANGED <<subscriptions, tasks, pubs>>
     ELSE /\ subscriptions' = [subscriptions EXCEPT ![s] = Without(@, topic)]
          /\ tasks' = [t \in DOMAIN tasks |-> IterAfterDrop(s, topic, tasks[t])]
          /\ pubs' = [p \in DOMAIN pubs |-> IterAfterDrop(s, topic, pubs[p])]
  /\ UNCHANGED <<options, transports, stopped, discovery,
                 ignored, started, registry, pendingRequests, calls, att, stale, net,
                 routes, listeners, invoked, handled, observed>>

\* RouterImpl.on('error', listener)
RouterOn(s) ==
  /\ listeners[s] = 0
  /\ listeners' = [listeners EXCEPT ![s] = 1]
  /\ UNCHANGED <<options, transports, stopped, discovery,
                 ignored, started, registry, pendingRequests, calls, att, stale, net,
                 routes, subscriptions, tasks, pubs, invoked, handled, observed>>

\* a route() that calls the first handler ever written for a route, the
\* example's, whatever handler the table has under it now
RouteToFirstHandler(s, m) ==
  IF m.target = ""
  THEN [ok |-> FALSE, h |-> "", status |-> BAD_REQUEST,
        value |-> "Missing target in request message"]
  ELSE IF m.target \notin DOMAIN routes[s]
  THEN [ok |-> FALSE, h |-> "", status |-> NOT_FOUND,
        value |-> "No handler registered for route"]
  ELSE [ok |-> TRUE, h |-> "greet", status |-> OK,
        value |-> Greeting(m.payload)]

\* RouterImpl.route of a request message: the handler's value, or the error
\* thrown (no target, no handler, or the handler's error wrapped)
RouteRequest(s, m) ==
  IF m.target = ""
  THEN [ok |-> FALSE, h |-> "", status |-> BAD_REQUEST,
        value |-> "Missing target in request message"]
  ELSE IF m.target \notin DOMAIN routes[s]
  THEN [ok |-> FALSE, h |-> "", status |-> NOT_FOUND,
        value |-> "No handler registered for route"]
  ELSE IF routes[s][m.target] = "boom"
  THEN [ok |-> FALSE, h |-> "boom", status |-> INTERNAL_ERROR,
        value |-> "Error handling message: boom"]
  ELSE [ok |-> TRUE, h |-> routes[s][m.target], status |-> OK,
        value |-> Greeting(m.payload)]

(***************************************************************************)
(* Service.handleIncomingMessage                                           *)
(***************************************************************************)
\* a response that names its sender as its target
ResponseToSelf(s, m, status, payload) ==
  Frame(<<m.service, Config(s).port>>,
        Serialize(Msg(m.id, RESPONSE, status, s, s, payload)))

\* the RESPONSE message answering request m, and the frame carrying it to
\* `${message.header.service}:${message.header.port || this.config.port}`
\* (a MessageHeader has no port field)
ResponseTo(s, m, status, payload) ==
  Frame(<<m.service, Config(s).port>>,
        Serialize(Msg(m.id, RESPONSE, status, s, m.service, payload)))

NoFrame == Frame(<<"", 0>>, Garbage)

Task(s, m, st, it, resp) ==
  [svc |-> s, msg |-> m, st |-> st, it |-> it, resp |-> resp]

\* a handler of RESPONSE messages that settles the oldest entry of the
\* table, whatever the id of the message
ResponseSettlesOldest(s, m) ==
  LET x == CHOOSE y \in DOMAIN pendingRequests[s] :
             \A z \in DOMAIN pendingRequests[s] : y <= z
      c == pendingRequests[s][x].call
      kind == IF m.status = OK THEN "resolved" ELSE "rejected"
      status == IF m.status = 0 THEN INTERNAL_ERROR ELSE m.status
      value == IF m.status = OK THEN m.payload ELSE "Request failed with status"
  IN /\ pendingRequests' = [pendingRequests EXCEPT ![s] = Without(@, x)]
     /\ att' = [att EXCEPT ![c] =
          [AttemptAfter(@, kind, status, value)
             EXCEPT !.timer = ClearTimeout(@)]]
     /\ calls' = [calls EXCEPT ![c] = CallAfter(c, kind, status, value)]
     /\ UNCHANGED <<tasks, invoked, handled>>

\* a matching RESPONSE: clear the entry's timer, delete the entry, resolve
\* with the payload on status OK, else reject with the status
ResponseMatched(s, m) ==
  LET c == pendingRequests[s][m.id].call
      kind == IF m.status = OK THEN "resolved" ELSE "rejected"
      status == IF m.status = 0 THEN INTERNAL_ERROR ELSE m.status
      value == IF m.status = OK THEN m.payload ELSE "Request failed with status"
  IN /\ pendingRequests' = [pendingRequests EXCEPT ![s] = Without(@, m.id)]
     /\ att' = [att EXCEPT ![c] =
          [AttemptAfter(@, kind, status, value)
             EXCEPT !.timer = ClearTimeout(@)]]
     /\ calls' = [calls EXCEPT ![c] = CallAfter(c, kind, status, value)]
     /\ UNCHANGED <<tasks, invoked, handled>>

\* a REQUEST: route it; the value goes back in an OK response, an error is
\* reported and goes back in an error response
RequestRouted(s, m) ==
  LET out == RouteRequest(s, m)
      t == Len(tasks) + 1
  IN /\ Len(tasks) < MaxTasks
     /\ tasks' = Append(tasks,
          Task(s, m, IF out.ok THEN "sendOk" ELSE "sendErr", NoIter,
               ResponseTo(s, m, out.status, out.value)))
     /\ invoked' = IF out.h = "" THEN invoked
                   ELSE Invoke(s, out.h, <<"task", t>>, m)
     /\ handled' = IF out.ok THEN handled
                   ELSE handled \cup {Err(s, out.status, out.value)}
     /\ UNCHANGED <<pendingRequests, calls, att>>

\* an EVENT: route() walks the Set stored under the topic, if there is one
EventRouted(s, m) ==
  IF m.target = ""
  THEN /\ handled' = handled \cup
            {Err(s, BAD_REQUEST, "Missing target in event message")}
       /\ UNCHANGED <<pendingRequests, calls, att, tasks, invoked>>
  ELSE IF m.target \notin DOMAIN subscriptions[s]
  THEN UNCHANGED <<pendingRequests, calls, att, tasks, invoked, handled>>
  ELSE LET it == Iter(s, m.target)
           t == Len(tasks) + 1
       IN IF it.cur = ""
          THEN UNCHANGED <<pendingRequests, calls, att, tasks, invoked, handled>>
          ELSE /\ Len(tasks) < MaxTasks
               /\ tasks' = Append(tasks, Task(s, m, "dispatch", it, NoFrame))
               /\ invoked' = Invoke(s, it.cur, <<"task", t>>, m)
               /\ UNCHANGED <<pendingRequests, calls, att, handled>>

\* a handleIncomingMessage that asks route() only whether the message is
\* an EVENT and takes any other for a REQUEST
BranchByEventOnly(s, r) ==
  IF ~r.ok THEN "catch"
  ELSE IF r.msg.type = RESPONSE /\ r.msg.id \in DOMAIN pendingRequests[s]
  THEN "response"
  ELSE IF r.msg.type = EVENT THEN "event"
  ELSE "request"

\* a handleIncomingMessage that takes any message with a pending id for
\* the response to it
BranchByIdOnly(s, r) ==
  IF ~r.ok THEN "catch"
  ELSE IF r.msg.id \in DOMAIN pendingRequests[s] THEN "response"
  ELSE IF r.msg.type = REQUEST THEN "request"
  ELSE IF r.msg.type = EVENT THEN "event"
  ELSE "null"

\* the way a deserialized frame takes through handleIncomingMessage and
\* route(): a RESPONSE with a pending entry settles it; any other message
\* is routed by its type
Branch(s, r) ==
  IF ~r.ok THEN "catch"
  ELSE IF r.msg.type = RESPONSE /\ r.msg.id \in DOMAIN pendingRequests[s]
  THEN "response"
  ELSE IF r.msg.type = REQUEST THEN "request"
  ELSE IF r.msg.type = EVENT THEN "event"
  ELSE "null"

\* handleIncomingMessage(data) up to its first await on a handler or a send
Receive(s, d) ==
  /\ s \in started
  /\ LET r == Deserialize(d)
         m == r.msg
         branch == Branch(s, r)
     IN /\ CASE branch = "catch" ->
                  \* reported; the catch block's own deserialize throws again
                  /\ handled' = handled \cup {Err(s, BAD_REQUEST, r.err)}
                  /\ UNCHANGED <<pendingRequests, calls, att, tasks, invoked>>
             [] branch = "response" -> ResponseMatched(s, m)
             [] branch = "request" -> RequestRouted(s, m)
             [] branch = "event" -> EventRouted(s, m)
             [] branch = "null" ->
                  \* route() returns null for any other message
                  UNCHANGED <<pendingRequests, calls, att, tasks, invoked, handled>>
        /\ ignored' = IF branch = "null" THEN ignored \cup {m.id} ELSE ignored
  /\ UNCHANGED <<options, transports, stopped, discovery,
                 stale, registry, started, routes, subscriptions,
                 listeners, pubs, observed>>

\* a frame in flight reaches the service listening on its target
Deliver(s, f) ==
  /\ f \in BagToSet(net)
  /\ f.to = TargetOf(Config(s))
  /\ net' = net (-) SetToBag({f})
  /\ Receive(s, f.data)

\* a frame arrives from a peer outside the model
Inject(s, d) ==
  /\ UNCHANGED net
  /\ Receive(s, d)

\* the handler a route() dispatch awaits has settled: a failure is emitted
\* as 'error' on the router's emitter, which throws it when there is no
\* listener; otherwise the loop goes on with the iterator's next entry
TaskHandlerDone(t) ==
  /\ t \in 1..Len(tasks)
  /\ tasks[t].st = "dispatch"
  /\ LET s == tasks[t].svc
         nx == Advance(s, tasks[t].it)
         e == Err(s, INTERNAL_ERROR, "Error handling event")
     IN IF Throws(tasks[t].it.cur) /\ listeners[s] = 0
        THEN /\ tasks' = [tasks EXCEPT ![t].st = "failed", ![t].it.cur = ""]
             /\ handled' = handled \cup {e}
             /\ UNCHANGED <<invoked, observed>>
        ELSE /\ tasks' = [tasks EXCEPT ![t].it = nx,
                            ![t].st = IF nx.cur = "" THEN "done" ELSE "dispatch"]
             /\ invoked' = IF nx.cur = "" THEN invoked
                           ELSE Invoke(s, nx.cur, <<"task", t>>, tasks[t].msg)
             /\ observed' = IF Throws(tasks[t].it.cur)
                            THEN observed \cup {e} ELSE observed
             /\ UNCHANGED handled
  /\ UNCHANGED <<options, transports, stopped, discovery,
                 ignored, started, registry, pendingRequests, calls, att, stale, net,
                 routes, subscriptions, listeners, pubs>>

\* the send of a response was accepted
TaskSendAccepted(t) ==
  /\ t \in 1..Len(tasks)
  /\ tasks[t].st \in {"sendOk", "sendErr"}
  /\ Listening(tasks[t].resp.to)
  /\ tasks' = [tasks EXCEPT ![t].st = "done"]
  /\ net' = Transmit(tasks[t].resp.to, tasks[t].resp.data)
  /\ UNCHANGED <<options, transports, stopped, discovery,
                 ignored, started, registry, pendingRequests, calls, att, stale,
                 routes, subscriptions, listeners, pubs, invoked, handled,
                 observed>>

\* a send of the OK response that fails after the frame has left
TaskSendFailedAfterWrite(t) ==
  /\ t \in 1..Len(tasks)
  /\ tasks[t].st \in {"sendOk", "sendErr"}
  /\ IF tasks[t].st = "sendOk"
     THEN /\ tasks' = [tasks EXCEPT ![t].st = "sendErr",
                         ![t].resp = ResponseTo(tasks[t].svc, tasks[t].msg,
                                       INTERNAL_ERROR, "Failed to send message")]
          /\ handled' = handled \cup
               {Err(tasks[t].svc, INTERNAL_ERROR, "Failed to send message")}
          /\ net' = Transmit(tasks[t].resp.to, tasks[t].resp.data)
     ELSE /\ tasks' = [tasks EXCEPT ![t].st = "done"]
          /\ UNCHANGED <<handled, net>>
  /\ UNCHANGED <<options, transports, stopped, discovery,
                 ignored, started, registry, pendingRequests, calls, att, stale,
                 routes, subscriptions, listeners, pubs, invoked, observed>>

\* the send of a response failed: a failed OK response is reported and an
\* error response is sent instead; a failed error response is ignored
TaskSendFailed(t) ==
  /\ t \in 1..Len(tasks)
  /\ tasks[t].st \in {"sendOk", "sendErr"}
  /\ IF tasks[t].st = "sendOk"
     THEN /\ tasks' = [tasks EXCEPT ![t].st = "sendErr",
                         ![t].resp = ResponseTo(tasks[t].svc, tasks[t].msg,
                                       INTERNAL_ERROR, "Failed to send message")]
          /\ handled' = handled \cup
               {Err(tasks[t].svc, INTERNAL_ERROR, "Failed to send message")}
     ELSE /\ tasks' = [tasks EXCEPT ![t].st = "done"]
          /\ UNCHANGED handled
  /\ UNCHANGED <<options, transports, stopped, discovery,
                 ignored, started, registry, pendingRequests, calls, att, stale, net,
                 routes, subscriptions, listeners, pubs, invoked, observed>>

(***************************************************************************)
(* Service.publish and RouterImpl.publish                                  *)
(***************************************************************************)
\* the message Service.publish serializes for the peers
WireMessage(s, p, topic, payload) ==
  Msg(PubId(p), EVENT, 0, s, topic, payload)
\* a local delivery that hands the subscribers the message of the wire
LocalIsWire(p, topic, payload) ==
  Msg(PubId(p), EVENT, 0, "publisher", topic, payload)

\* the message RouterImpl.publish builds for the local subscribers
LocalMessage(p, topic, payload) ==
  Msg(LocalId(p), EVENT, 0, "publisher", topic, payload)

Pub(s, topic, payload, st, peers, it) ==
  [svc |-> s, topic |-> topic, payload |-> payload, st |-> st,
   peers |-> peers, it |-> it]

\* a publish that sends to every service of listServices(), itself too
PeersWithSelf(s) == registry[s]

\* the services of listServices() that publish sends to: all but itself
Peers(s) == SelectSeq(registry[s], LAMBDA d : d.name # s)

\* publish r once the sends to the peers are over: RouterImpl.publish
\* returns at once without subscribers, else starts walking their Set
LocalPublish(r) ==
  IF r.topic \notin DOMAIN subscriptions[r.svc]
     \/ Len(subscriptions[r.svc][r.topic]) = 0
  THEN [r EXCEPT !.st = "done"]
  ELSE [r EXCEPT !.st = "local", !.it = Iter(r.svc, r.topic)]

\* publish r after the send to the first of r.peers has settled
AfterPeer(r) ==
  IF Len(r.peers) > 1 THEN [r EXCEPT !.peers = Tail(@)]
  ELSE LocalPublish([r EXCEPT !.peers = <<>>])

\* the invocation a publish makes when it enters (or stays out of) "local"
InvokedBy(p, r) ==
  IF r.st = "local"
  THEN Invoke(r.svc, r.it.cur, <<"pub", p>>,
              LocalMessage(p, r.topic, r.payload))
  ELSE invoked

\* Service.publish(topic, payload) up to its first await on a send or on a
\* local handler
Publish(s, topic, payload) ==
  /\ Len(pubs) < MaxPubs
  /\ LET p == Len(pubs) + 1
         r0 == Pub(s, topic, payload, "sending", Peers(s), NoIter)
         r == IF Peers(s) = <<>> THEN LocalPublish(r0) ELSE r0
     IN /\ pubs' = Append(pubs, r)
        /\ invoked' = InvokedBy(p, r)
  /\ UNCHANGED <<options, transports, stopped, discovery,
                 ignored, started, registry, pendingRequests, calls, att, stale, net,
                 routes, subscriptions, listeners, tasks, handled, observed>>

\* the send to a peer was accepted: next peer, or the local publish
PubSendAccepted(p) ==
  /\ p \in 1..Len(pubs)
  /\ pubs[p].st = "sending"
  /\ Listening(TargetOf(Head(pubs[p].peers)))
  /\ net' = Transmit(TargetOf(Head(pubs[p].peers)),
              Serialize(WireMessage(pubs[p].svc, p, pubs[p].topic,
                                    pubs[p].payload)))
  /\ pubs' = [pubs EXCEPT ![p] = AfterPeer(@)]
  /\ invoked' = InvokedBy(p, AfterPeer(pubs[p]))
  /\ UNCHANGED <<options, transports, stopped, discovery,
                 ignored, started, registry, pendingRequests, calls, att, stale,
                 routes, subscriptions, listeners, tasks, handled, observed>>

\* the send to a peer failed: reported, then next peer or the local publish
PubSendFailed(p) ==
  /\ p \in 1..Len(pubs)
  /\ pubs[p].st = "sending"
  /\ handled' = handled \cup
       {Err(pubs[p].svc, INTERNAL_ERROR, "Failed to send message")}
  /\ pubs' = [pubs EXCEPT ![p] = AfterPeer(@)]
  /\ invoked' = InvokedBy(p, AfterPeer(pubs[p]))
  /\ UNCHANGED <<options, transports, stopped, discovery,
                 ignored, started, registry, pendingRequests, calls, att, stale, net,
                 routes, subscriptions, listeners, tasks, observed>>

\* the handler RouterImpl.publish awaits has settled: a failure is emitted
\* as 'error' on the router's emitter, which throws it when there is no
\* listener, and Service.publish rejects with it; otherwise the loop goes on
PubHandlerDone(p) ==
  /\ p \in 1..Len(pubs)
  /\ pubs[p].st = "local"
  /\ LET s == pubs[p].svc
         nx == Advance(s, pubs[p].it)
         r == [pubs[p] EXCEPT !.it = nx,
                              !.st = IF nx.cur = "" THEN "done" ELSE "local"]
     IN IF Throws(pubs[p].it.cur) /\ listeners[s] = 0
        THEN /\ pubs' = [pubs EXCEPT ![p].st = "failed", ![p].it.cur = ""]
             /\ UNCHANGED <<invoked, observed>>
        ELSE /\ pubs' = [pubs EXCEPT ![p] = r]
             /\ invoked' = InvokedBy(p, r)
             /\ observed' = IF Throws(pubs[p].it.cur)
                            THEN observed \cup
                                 {Err(s, INTERNAL_ERROR, "Error publishing to topic")}
                            ELSE observed
  /\ UNCHANGED <<options, transports, stopped, discovery,
                 ignored, started, registry, pendingRequests, calls, att, stale, net,
                 routes, subscriptions, listeners, tasks, handled>>

(***************************************************************************)
(* TcpTransport and UdpTransport                                           *)
(*                                                                         *)
(* One transport object of each type, as TransportFactory creates it.  Of  *)
(* a transport: server is this.server of a TcpTransport (none, listening   *)
(* or closed); sockets are the sockets it has created or accepted, each    *)
(* with the key it was cached under and its state; connections is          *)
(* this.connections, from key to socket; socket is this.socket of a        *)
(* UdpTransport (0: null); sends are the promises of its send() calls and  *)
(* closes the outcomes of its close() calls.                               *)
(***************************************************************************)
TransportKinds == {"tcp", "udp"}

NoTransport ==
  [server |-> "none", sockets |-> <<>>, connections |-> <<>>, socket |-> 0,
   sends |-> <<>>, closes |-> <<>>]

\* the targets `${host}:${port}` a transport is asked to send to
SendTargets == {<<DefaultHost, PortA>>, <<DefaultHost, PortB>>}
\* the `${remoteAddress}:${remotePort}` of the clients of a server: their
\* ports are ephemeral, no target has them
ClientIds == {<<DefaultHost, 0>>}

Socket(key, state, inbound) == [key |-> key, state |-> state, inbound |-> inbound]
SendPromise(target, socket, st) == [target |-> target, socket |-> socket, st |-> st]

\* the sockets of a transport that hold a descriptor of the system
OpenSockets(tr) ==
  {i \in DOMAIN tr.sockets : tr.sockets[i].state \in {"connecting", "open"}}

TransportStep(k, tr) ==
  /\ transports' = [transports EXCEPT ![k] = tr]
  /\ UNCHANGED <<options, started, registry, pendingRequests, calls, att,
                 stale, net, routes, subscriptions, listeners, tasks, pubs,
                 invoked, handled, ignored, observed, stopped, discovery>>

\* TcpTransport.listen: create the server and listen
TcpListen ==
  /\ transports["tcp"].server = "none"
  /\ TransportStep("tcp", [transports["tcp"] EXCEPT !.server = "listening"])

\* the connection callback of the server: cache the socket of the client
TcpAccept(clientId) ==
  LET tr == transports["tcp"]
      i == Len(tr.sockets) + 1
  IN /\ tr.server = "listening"
     /\ Cardinality({j \in DOMAIN tr.sockets : tr.sockets[j].inbound}) < MaxAccepts
     /\ TransportStep("tcp",
          [tr EXCEPT !.sockets = Append(@, Socket(clientId, "open", TRUE)),
                     !.connections = With(@, clientId, i)])

\* the client closes its connection: the socket is destroyed and its
\* 'close' handler deletes the entry of its clientId
TcpSocketClosed(i) ==
  LET tr == transports["tcp"]
  IN /\ i \in DOMAIN tr.sockets
     /\ tr.sockets[i].inbound /\ tr.sockets[i].state = "open"
     /\ TransportStep("tcp",
          [tr EXCEPT !.sockets[i].state = "destroyed",
                     !.connections = Without(@, tr.sockets[i].key)])

\* a send() that opens a connection whenever the target has a cached one
TcpSendAlwaysConnects(target) ==
  LET tr == transports["tcp"]
      i == Len(tr.sockets) + 1
  IN /\ Len(tr.sends) < MaxSends
     /\ TransportStep("tcp",
          [tr EXCEPT !.sockets = Append(@, Socket(target, "connecting", FALSE)),
                     !.connections = With(@, target, i),
                     !.sends = Append(@, SendPromise(target, i, "pending"))])

\* TcpTransport.send: write on the cached socket of the target unless it
\* is destroyed (a write on a connecting socket waits for the connect),
\* else open a connection, cache its socket and write once it stands
TcpSend(target) ==
  LET tr == transports["tcp"]
      i == Len(tr.sockets) + 1
  IN /\ Len(tr.sends) < MaxSends
     /\ IF /\ target \in DOMAIN tr.connections
           /\ tr.sockets[tr.connections[target]].state # "destroyed"
        THEN LET c == tr.connections[target]
             IN TransportStep("tcp",
                  [tr EXCEPT !.sends = Append(@,
                     SendPromise(target, c,
                       IF tr.sockets[c].state = "open" THEN "resolved"
                       ELSE "pending"))])
        ELSE TransportStep("tcp",
               [tr EXCEPT !.sockets = Append(@, Socket(target, "connecting", FALSE)),
                          !.connections = With(@, target, i),
                          !.sends = Append(@, SendPromise(target, i, "pending"))])

\* the sends of a transport after the writes waiting on socket i settled
SendsAfter(tr, i, st) ==
  [n \in DOMAIN tr.sends |->
     IF tr.sends[n].socket = i /\ tr.sends[n].st = "pending"
     THEN [tr.sends[n] EXCEPT !.st = st] ELSE tr.sends[n]]

\* the connection of socket i stands: the writes waiting on it are made
TcpConnected(i) ==
  LET tr == transports["tcp"]
  IN /\ i \in DOMAIN tr.sockets
     /\ tr.sockets[i].state = "connecting"
     /\ TransportStep("tcp",
          [tr EXCEPT !.sockets[i].state = "open",
                     !.sends = SendsAfter(tr, i, "resolved")])

\* socket i, opened by send(), fails: it is destroyed, its 'error'
\* listener and the callbacks of the writes waiting on it reject
TcpSocketError(i) ==
  LET tr == transports["tcp"]
  IN /\ i \in DOMAIN tr.sockets
     /\ ~tr.sockets[i].inbound
     /\ tr.sockets[i].state \in {"connecting", "open"}
     /\ TransportStep("tcp",
          [tr EXCEPT !.sockets[i].state = "destroyed",
                     !.sends = SendsAfter(tr, i, "rejected")])

\* TcpTransport.close: destroy the cached sockets, clear the cache, close
\* the server if there is one; the callback of server.close() resolves,
\* be it called with an error (server not running) or without
TcpClose ==
  LET tr == transports["tcp"]
      cached == {tr.connections[key] : key \in DOMAIN tr.connections}
  IN /\ Len(tr.closes) < MaxCloses
     /\ TransportStep("tcp",
          [tr EXCEPT !.sockets = [i \in DOMAIN @ |->
                                    IF i \in cached
                                    THEN [@[i] EXCEPT !.state = "destroyed"]
                                    ELSE @[i]],
                     !.connections = <<>>,
                     !.server = IF @ = "none" THEN "none" ELSE "closed",
                     !.closes = Append(@, "resolved")])

\* UdpTransport.listen: create a socket, store it in this.socket, bind it
UdpListen ==
  LET tr == transports["udp"]
  IN /\ tr.server = "none"
     /\ TransportStep("udp",
          [tr EXCEPT !.server = "listening",
                     !.sockets = Append(@, Socket(<<DefaultHost, PortA>>, "open", TRUE)),
                     !.socket = Len(tr.sockets) + 1])

\* UdpTransport.send: create the socket if this.socket is null, send on
\* this.socket; socket.send() throws on a closed socket and send rejects
UdpSend(target) ==
  LET tr == transports["udp"]
  IN /\ Len(tr.sends) < MaxSends
     /\ IF tr.socket = 0
        THEN TransportStep("udp",
               [tr EXCEPT !.sockets = Append(@, Socket(target, "open", FALSE)),
                          !.socket = Len(tr.sockets) + 1,
                          !.sends = Append(@,
                             SendPromise(target, Len(tr.sockets) + 1, "resolved"))])
        ELSE TransportStep("udp",
               [tr EXCEPT !.sends = Append(@,
                  SendPromise(target, tr.socket,
                    IF tr.sockets[tr.socket].state = "open" THEN "resolved"
                    ELSE "rejected"))])

\* UdpTransport.close: resolve if this.socket is null, else call
\* this.socket.close(), which throws on a socket closed before: the
\* executor of the promise throws and close() rejects
UdpClose ==
  LET tr == transports["udp"]
  IN /\ Len(tr.closes) < MaxCloses
     /\ IF tr.socket = 0
        THEN TransportStep("udp", [tr EXCEPT !.closes = Append(@, "resolved")])
        ELSE IF tr.sockets[tr.socket].state = "open"
        THEN TransportStep("udp",
               [tr EXCEPT !.sockets[tr.socket].state = "closed",
                          !.server = IF @ = "none" THEN "none" ELSE "closed",
                          !.closes = Append(@, "resolved")])
        ELSE TransportStep("udp", [tr EXCEPT !.closes = Append(@, "rejected")])

(***************************************************************************)
(* Service.start                                                           *)
(***************************************************************************)
\* MulticastDiscovery.startHeartbeat: a new interval timer, stored in
\* heartbeatInterval in place of the one stored there, which runs on
StartHeartbeat(dv) ==
  LET id == dv.started + 1
  IN [dv EXCEPT !.timers = @ \cup {id}, !.heartbeatInterval = id,
                !.started = id]

\* the discovery object after register(): MulticastDiscovery starts a
\* heartbeat, LocalDiscovery has none
Registered(s) ==
  IF DiscoveryType(s) = "multicast" THEN StartHeartbeat(discovery[s])
  ELSE discovery[s]

\* the discovery object after close(): clearInterval of the timer that
\* heartbeatInterval holds, close of the socket
Closed(s) ==
  [discovery[s] EXCEPT !.timers = @ \ {discovery[s].heartbeatInterval},
                       !.socket = IF @ = "open" THEN "closed" ELSE @]

\* MulticastDiscovery.register(service) on the discovery of s: the
\* descriptor is stored, a heartbeat is started, the announce is sent (it
\* throws when the socket is closed, after the rest is done)
MulticastRegister(s, d) ==
  /\ DiscoveryType(s) = "multicast"
  /\ d.name # ""
  /\ discovery[s].started < MaxRegisters
  /\ registry' = [registry EXCEPT ![s] = RegistryWith(@, d)]
  /\ discovery' = [discovery EXCEPT ![s] = Registered(s)]
  /\ UNCHANGED <<options, transports, stopped, started, handled,
                 ignored, pendingRequests, calls, att, stale, net, routes,
                 subscriptions, listeners, tasks, pubs, invoked, observed>>

\* MulticastDiscovery.close() on the discovery of s: the timer held by
\* heartbeatInterval is cancelled, the socket is closed (a socket closed
\* before throws, and close() rejects), the services map is cleared
MulticastClose(s) ==
  /\ DiscoveryType(s) = "multicast"
  /\ discovery' = [discovery EXCEPT ![s] = Closed(s)]
  /\ registry' = [registry EXCEPT ![s] = IF NotRunning(s) THEN @ ELSE <<>>]
  /\ UNCHANGED <<options, transports, stopped, started, handled,
                 ignored, pendingRequests, calls, att, stale, net, routes,
                 subscriptions, listeners, tasks, pubs, invoked, observed>>

\* the callback of interval timer id of the discovery of s runs: it
\* broadcasts the service-announce, or throws when the socket is closed
HeartbeatFires(s, id) ==
  /\ id \in discovery[s].timers
  /\ discovery[s].sent + discovery[s].failed < MaxBeats
  /\ discovery' = [discovery EXCEPT ![s] =
       IF NotRunning(s) THEN [@ EXCEPT !.failed = @ + 1]
       ELSE [@ EXCEPT !.sent = @ + 1]]
  /\ UNCHANGED <<options, transports, stopped, started, handled, registry,
                 ignored, pendingRequests, calls, att, stale, net, routes,
                 subscriptions, listeners, tasks, pubs, invoked, observed>>

\* start(): register the own config with the own discovery, then listen.
\* On a MulticastDiscovery that was closed the announce of register()
\* throws, after the heartbeat was started: start() reports and rethrows.
Start(s) ==
  /\ s \notin started
  /\ discovery[s].started < MaxRegisters
  /\ registry' = [registry EXCEPT ![s] = RegistryWith(@, Config(s))]
  /\ discovery' = [discovery EXCEPT ![s] = Registered(s)]
  /\ IF NotRunning(s)
     THEN /\ handled' = handled \cup {Err(s, 0, "Not running")}
          /\ UNCHANGED <<started, stopped>>
     ELSE /\ started' = started \cup {s}
          /\ stopped' = stopped \ {s}
          /\ UNCHANGED handled
  /\ UNCHANGED <<options, transports,
                 ignored, pendingRequests, calls, att, stale, net, routes,
                 subscriptions, listeners, tasks, pubs, invoked, observed>>

(***************************************************************************)
(* Service.stop                                                            *)
(***************************************************************************)
\* stop(): close the transport (the server stops listening), then close
\* the discovery (its services map is cleared).  The pending calls, their
\* timers and the loops of request() are not touched.  On a
\* MulticastDiscovery that was closed before, close() throws at
\* socket.close(): stop() reports and rethrows.
Stop(s) ==
  /\ started' = started \ {s}
  /\ discovery' = [discovery EXCEPT ![s] = Closed(s)]
  /\ IF NotRunning(s)
     THEN /\ handled' = handled \cup {Err(s, 0, "Not running")}
          /\ UNCHANGED <<registry, stopped>>
     ELSE /\ registry' = [registry EXCEPT ![s] = <<>>]
          /\ stopped' = stopped \cup {s}
          /\ UNCHANGED handled
  /\ UNCHANGED <<options, transports,
                 ignored, pendingRequests, calls, att, stale, net, routes,
                 subscriptions, listeners, tasks, pubs, invoked, observed>>

(***************************************************************************)
(* Specifications                                                          *)
(***************************************************************************)
\* the options of the example: name and port given, the rest left out
ExampleOptions(s) ==
  [port |-> IF s = "service-a" THEN PortA
            ELSE IF s = "service-b" THEN PortB ELSE PortB + 1,
   host |-> Undefined, retries |-> Undefined, discoveryType |-> Undefined]

\* the state once the services are constructed: nothing registered,
\* nothing subscribed, nothing pending
\* a MulticastDiscovery after its constructor: the socket of setupSocket(),
\* no heartbeat timer (timers: the interval timers running, by number;
\* heartbeatInterval: the one the field holds, 0 for null), and what the
\* heartbeat callbacks have done so far.  A LocalDiscovery has no socket.
NewDiscovery(type) ==
  [socket |-> IF type = "multicast" THEN "open" ELSE "none",
   timers |-> {}, heartbeatInterval |-> 0, started |-> 0,
   sent |-> 0, failed |-> 0]

Constructed ==
  /\ started = {}
  /\ stopped = {}
  /\ discovery = [s \in Services |-> NewDiscovery(DiscoveryType(s))]
  /\ registry = [s \in Services |-> <<>>]
  /\ pendingRequests = [s \in Services |-> <<>>]
  /\ calls = [c \in CallIds |-> NoCall]
  /\ att = [c \in CallIds |-> NoAttempt]
  /\ stale = [c \in CallIds |-> {}]
  /\ net = EmptyBag
  /\ routes = [s \in Services |-> <<>>]
  /\ subscriptions = [s \in Services |-> <<>>]
  /\ listeners = [s \in Services |-> 0]
  /\ tasks = <<>>
  /\ pubs = <<>>
  /\ invoked = EmptyBag
  /\ handled = {}
  /\ ignored = {}
  /\ observed = {}
  /\ transports = [k \in TransportKinds |-> NoTransport]

\* Spec: the calls of one service, service-b, with local discovery or
\* finding its peers by multicast, to a service of another process.  Any
\* send may be accepted or fail, any timer may fire, and any RESPONSE
\* frame may arrive at any time.
Caller == "service-b"

Init ==
  /\ \E r \in {Undefined, Some(1)}, t \in {Undefined, Some("multicast")} :
       options = [s \in Services |->
                    IF s = Caller
                    THEN [ExampleOptions(s) EXCEPT !.retries = r,
                                                   !.discoveryType = t]
                    ELSE ExampleOptions(s)]
  /\ Constructed

\* the RESPONSE frames a peer may send: any id, a pending one or not
ResponseFrames ==
  {Serialize(Msg(id, RESPONSE, status, ExternalPeer.name, target,
                 "Hello, World!")) :
     id \in 1..(MaxCalls + 1), status \in {OK, NOT_FOUND},
     target \in {Caller, "greeting"}}

Next ==
  \/ Start(Caller)
  \/ \E h \in RouteHandlers : Register(Caller, "greeting", h)
  \/ Unregister(Caller, "greeting")
  \/ AnnounceArrives(Caller, ExternalPeer)
  \/ \E c \in 1..MaxProbed, name \in {ExternalPeer.name, "service-a"},
        opt \in RetriesOptions :
       Request(Caller, c, name, "greeting", "World", opt)
  \/ \E c \in CallIds : DiscoverTimeout(c)
  \/ \E c \in CallIds : BackoffDone(c)
  \/ \E c \in CallIds : TimerFire(c)
  \/ \E c \in CallIds : SendFailed(c)
  \/ \E c \in CallIds : SendAccepted(c)
  \/ \E c \in CallIds : \E e \in stale[c] : StaleSendFailed(c, e)
  \/ \E c \in CallIds : \E e \in stale[c] : StaleSendAccepted(c, e)
  \/ \E d \in ResponseFrames : Inject(Caller, d)

Spec == Init /\ [][Next]_vars

\* SpecTimers: the behaviours of Spec in which every timer fires in the
\* end, as the event loop has it: the deadline of an attempt, the backoff
\* delay of the loop, the timeout of a multicast discover().  Nothing is
\* asked of the transport or of the peer: a send may never settle, a
\* RESPONSE may never arrive.
SpecTimers ==
  /\ Init /\ [][Next]_vars
  /\ \A c \in CallIds : /\ WF_vars(TimerFire(c))
                        /\ WF_vars(BackoffDone(c))
                        /\ WF_vars(DiscoverTimeout(c))

\* SpecStop: service-b, finding its peers by multicast, makes calls of two
\* rounds to a service of another process and is stopped at any time,
\* also more than once, and started again.  Any send may be accepted or
\* fail, at once or after its attempt is over, and any timer may fire.
InitStop ==
  /\ options = [s \in Services |->
                  IF s = Caller
                  THEN [ExampleOptions(s) EXCEPT
                          !.retries = Some(2),
                          !.discoveryType = Some("multicast")]
                  ELSE ExampleOptions(s)]
  /\ Constructed

NextStop ==
  \/ Start(Caller)
  \/ Stop(Caller)
  \/ AnnounceArrives(Caller, ExternalPeer)
  \/ \E c \in CallIds :
       Request(Caller, c, ExternalPeer.name, "greeting", "World", Undefined)
  \/ \E c \in CallIds : DiscoverTimeout(c)
  \/ \E c \in CallIds : BackoffDone(c)
  \/ \E c \in CallIds : TimerFire(c)
  \/ \E c \in CallIds : SendFailed(c)
  \/ \E c \in CallIds : SendAccepted(c)
  \/ \E c \in CallIds : \E e \in stale[c] : StaleSendFailed(c, e)
  \/ \E c \in CallIds : \E e \in stale[c] : StaleSendAccepted(c, e)

SpecStop == InitStop /\ [][NextStop]_vars

\* SpecRouter: one service, service-a, built with the example's options,
\* its subscriptions changing at any time, publishing and receiving EVENT
\* frames of a peer, each handler settling at any time.  The router is
\* also reached directly, by code that adds an 'error' listener to it.
Subject == "service-a"

InitRouter ==
  /\ options = [s \in Services |-> ExampleOptions(s)]
  /\ Constructed

\* ids of the messages of other processes
PeerIds == {-1}

\* the EVENT frames a peer may send
EventFrames ==
  {Serialize(Msg(id, EVENT, 0, ExternalPeer.name, topic, "hi")) :
     id \in PeerIds, topic \in Topics}

NextRouter ==
  \/ Start(Subject)
  \/ \E h \in EventHandlers :
       /\ BagCardinality(invoked) < MaxInvoked
       /\ Subscribe(Subject, "notifications", h)
  \/ \E h \in {Undefined} \cup {Some(x) : x \in EventHandlers} :
       Unsubscribe(Subject, "notifications", h)
  \/ RouterOn(Subject)
  \/ \E topic \in Topics : Publish(Subject, topic, "hi")
  \/ \E p \in 1..MaxPubs : PubHandlerDone(p)
  \/ \E d \in EventFrames :
       /\ Len(tasks) < MaxEvents
       /\ Inject(Subject, d)
  \/ \E t \in 1..MaxTasks : TaskHandlerDone(t)

SpecRouter == InitRouter /\ [][NextRouter]_vars

\* SpecE2E: the example.  service-a and service-b are constructed, with
\* local discovery as in the example or both with multicast discovery,
\* service-b listening on the example's address or on its own name as host
\* and the port of service-a; both are started, service-a registers
\* "greeting" and subscribes to "notifications", then service-b makes its
\* request and publishes.  The network loses nothing: a send fails only
\* when nobody listens on its target, a deadline passes only when nothing
\* is on its way, announces arrive before the calls are made.
InitE2E ==
  /\ \E t \in {Undefined, Some("multicast")}, named \in BOOLEAN :
       options = [s \in Services |->
         IF s = Caller /\ named
         THEN [port |-> PortA, host |-> Some(Caller), retries |-> Some(1),
               discoveryType |-> t]
         ELSE [ExampleOptions(s) EXCEPT !.retries = Some(1),
                                        !.discoveryType = t]]
  /\ Constructed

\* the example has come to the point where service-b makes its calls
Ready ==
  /\ started = ExampleServices
  /\ "greeting" \in DOMAIN routes[Subject]
  /\ "notifications" \in DOMAIN subscriptions[Subject]
  /\ \A s \in ExampleServices : DiscoveryType(s) = "multicast" =>
       \A o \in ExampleServices : Discover(s, o) # Undefined

\* nothing is on its way for call c
Quiet(c) ==
  /\ net = EmptyBag
  /\ att[c].send # "inflight"
  /\ \A t \in 1..Len(tasks) : tasks[t].st \notin {"sendOk", "sendErr"}

NextE2E ==
  \/ \E s \in ExampleServices : Start(s)
  \/ \E s \in ExampleServices, o \in ExampleServices :
       /\ o \in started \ {s}
       /\ DiscoveryType(o) = "multicast"
       /\ AnnounceArrives(s, Config(o))
  \/ Register(Subject, "greeting", "greet")
  \/ Subscribe(Subject, "notifications", "h2")
  \/ \E c \in CallIds :
       /\ Ready
       /\ Request(Caller, c, Subject, "greeting", "World", Undefined)
  \/ /\ Ready
     /\ Publish(Caller, "notifications", "hi")
  \/ \E c \in CallIds : SendAccepted(c)
  \/ \E c \in CallIds : Quiet(c) /\ TimerFire(c)
  \/ \E p \in 1..MaxPubs : PubSendAccepted(p)
  \/ \E s \in ExampleServices : \E f \in BagToSet(net) : Deliver(s, f)
  \/ \E t \in 1..MaxTasks : TaskHandlerDone(t)
  \/ \E t \in 1..MaxTasks : TaskSendAccepted(t)
  \/ \E t \in DOMAIN tasks :
       /\ ~Listening(tasks[t].resp.to)
       /\ TaskSendFailed(t)

\* the event loop runs a callback whenever one is ready
SpecE2E == InitE2E /\ [][NextE2E]_vars /\ WF_vars(NextE2E)

\* SpecCalls: service-b, finding its peers by multicast, makes its calls
\* to a service of another process one after the other without waiting,
\* each with its own payload.  The peer answers each call with the
\* greeting for its payload, under any status or none, in any order, any
\* number of times; any send may be accepted or fail, any timer may fire.
InitCalls ==
  /\ \E r \in {Some(1), Some(2)} :
       options = [s \in Services |->
                    IF s = Caller
                    THEN [ExampleOptions(s) EXCEPT
                            !.retries = r, !.discoveryType = Some("multicast")]
                    ELSE ExampleOptions(s)]
  /\ Constructed

\* the payload of call c and the payload of the peer's response to it
NameOf(c) == ToString(c)
Reply(id) == Greeting(NameOf(id))

\* the RESPONSE frames the peer sends: one per call and status (0: none)
CallResponses ==
  {Serialize(Msg(ReqId(c), RESPONSE, status, ExternalPeer.name, Caller,
                 Reply(ReqId(c)))) :
     c \in CallIds, status \in {OK, NOT_FOUND, 0}}

NextCalls ==
  \/ Start(Caller)
  \/ AnnounceArrives(Caller, ExternalPeer)
  \/ \E c \in CallIds :
       Request(Caller, c, ExternalPeer.name, "greeting", NameOf(c), Undefined)
  \/ \E c \in CallIds : BackoffDone(c)
  \/ \E c \in CallIds : TimerFire(c)
  \/ \E c \in CallIds : SendFailed(c)
  \/ \E c \in CallIds : SendAccepted(c)
  \/ \E d \in CallResponses : Inject(Caller, d)

SpecCalls == InitCalls /\ [][NextCalls]_vars

\* SpecSilent: service-b, finding its peers by multicast, makes its calls
\* to a service of another process that announces itself, accepts every
\* frame and never answers, and to service-a, which never announces
\* itself.  Every send is accepted, every deadline passes, every backoff
\* delay ends.
InitSilent ==
  /\ \E r \in {Undefined, Some(1), Some(2)} :
       options = [s \in Services |->
                    IF s = Caller
                    THEN [ExampleOptions(s) EXCEPT
                            !.retries = r, !.discoveryType = Some("multicast")]
                    ELSE ExampleOptions(s)]
  /\ Constructed

NextSilent ==
  \/ Start(Caller)
  \/ AnnounceArrives(Caller, ExternalPeer)
  \/ \E c \in CallIds, name \in {ExternalPeer.name, "service-a"},
        opt \in {Undefined, Some(2)} :
       Request(Caller, c, name, "greeting", NameOf(c), opt)
  \/ \E c \in CallIds : DiscoverTimeout(c)
  \/ \E c \in CallIds : BackoffDone(c)
  \/ \E c \in CallIds : TimerFire(c)
  \/ \E c \in CallIds : SendAccepted(c)
  \/ \E c \in CallIds : \E e \in stale[c] : StaleSendAccepted(c, e)

\* the event loop runs a callback whenever one is ready
SpecSilent == InitSilent /\ [][NextSilent]_vars /\ WF_vars(NextSilent)

\* SpecRetry: service-b, finding its peers by multicast, makes its calls,
\* each with a payload of its own, to service-a, which listens but is not
\* followed: the frames accepted for it stay in flight.  Any send may be
\* accepted or fail, at once or after its attempt is over, and any timer
\* may fire.
InitRetry ==
  /\ \E r \in {Some(2), Undefined} :
       options = [s \in Services |->
                    IF s = Caller
                    THEN [ExampleOptions(s) EXCEPT
                            !.retries = r, !.discoveryType = Some("multicast")]
                    ELSE ExampleOptions(s)]
  /\ Constructed

NextRetry ==
  \/ \E s \in ExampleServices : Start(s)
  \/ /\ Subject \in started
     /\ AnnounceArrives(Caller, Config(Subject))
  \/ \E c \in CallIds :
       Request(Caller, c, Subject, "greeting", NameOf(c), Undefined)
  \/ \E c \in CallIds : DiscoverTimeout(c)
  \/ \E c \in CallIds : BackoffDone(c)
  \/ \E c \in CallIds : TimerFire(c)
  \/ \E c \in CallIds : SendFailed(c)
  \/ \E c \in CallIds : SendAccepted(c)
  \/ \E c \in CallIds : \E e \in stale[c] : StaleSendFailed(c, e)
  \/ \E c \in CallIds : \E e \in stale[c] : StaleSendAccepted(c, e)

SpecRetry == InitRetry /\ [][NextRetry]_vars

\* SpecServe: service-a serves the frames of service-b, which runs on the
\* host of its own name with the port of service-a.  The handler of route
\* "greeting" is registered, replaced and removed at any time, topic
\* "notifications" is subscribed to at any time; CALL frames with and
\* without target and EVENT frames arrive; any send of a response may be
\* accepted, once service-b listens, or fail.
InitServe ==
  /\ options = [s \in Services |->
                  IF s = Caller
                  THEN [ExampleOptions(s) EXCEPT !.port = PortA,
                                                 !.host = Some(Caller)]
                  ELSE ExampleOptions(s)]
  /\ Constructed

\* ids of the CALL messages of other processes
PeerCallIds == {-2}

\* the CALL frames service-b may send: to route "greeting" or to none
CallFrames ==
  {Serialize(Msg(id, REQUEST, 0, Caller, target, "World")) :
     id \in PeerCallIds, target \in {"greeting", ""}}

\* the EVENT frames service-b may send
PeerEventFrames ==
  {Serialize(Msg(id, EVENT, 0, Caller, "notifications", "hi")) :
     id \in PeerIds}

NextServe ==
  \/ \E s \in ExampleServices : Start(s)
  \/ \E h \in RouteHandlers : Register(Subject, "greeting", h)
  \/ Unregister(Subject, "greeting")
  \/ \E h \in EventHandlers :
       /\ BagCardinality(invoked) < MaxInvoked
       /\ Subscribe(Subject, "notifications", h)
  \/ \E d \in CallFrames \cup PeerEventFrames : Inject(Subject, d)
  \/ \E t \in 1..MaxTasks : TaskHandlerDone(t)
  \/ \E t \in 1..MaxTasks : TaskSendAccepted(t)
  \/ \E t \in 1..MaxTasks : TaskSendFailed(t)

SpecServe == InitServe /\ [][NextServe]_vars

\* SpecCross: service-b, finding its peers by multicast, has a call to a
\* service of another process under way while that service sends it CALL
\* and EVENT frames, under the id of the call or another, for a route and
\* a topic that have a handler or none, and RESPONSE frames.  The send of
\* the call may be accepted and its timer may fire; the runs that serve
\* the frames are not followed further.
CrossFrames ==
  {Serialize(Msg(id, type, OK, ExternalPeer.name,
                 IF type = EVENT THEN "notifications" ELSE "greeting",
                 "World")) :
     id \in {ReqId(1)} \cup PeerCallIds, type \in {REQUEST, EVENT, RESPONSE}}

NextCross ==
  \/ Start(Caller)
  \/ AnnounceArrives(Caller, ExternalPeer)
  \/ Register(Caller, "greeting", "greet")
  \/ Subscribe(Caller, "notifications", "h2")
  \/ \E c \in 1..MaxProbed :
       Request(Caller, c, ExternalPeer.name, "greeting", NameOf(c), Undefined)
  \/ \E c \in CallIds : BackoffDone(c)
  \/ \E c \in CallIds : TimerFire(c)
  \/ \E c \in CallIds : SendAccepted(c)
  \/ \E d \in CrossFrames : Inject(Caller, d)

SpecCross == InitCalls /\ [][NextCross]_vars

\* SpecDecode: as SpecCross, but the frames that arrive at service-b are
\* bytes that are no JSON text, or messages that lack header.id,
\* header.type or header.service, of any type, under the id of the call or
\* none, for the route or the topic that has a handler.
BadFrames ==
  {Garbage} \cup
  {Serialize(Msg(x[1], x[2], OK, x[3],
                 IF x[2] = EVENT THEN "notifications" ELSE "greeting",
                 "World")) :
     x \in {y \in {0, ReqId(1)} \X {"", REQUEST, EVENT, RESPONSE}
                    \X {"", ExternalPeer.name} :
              y[1] = 0 \/ y[2] = "" \/ y[3] = ""}}

NextDecode ==
  \/ Start(Caller)
  \/ AnnounceArrives(Caller, ExternalPeer)
  \/ Register(Caller, "greeting", "greet")
  \/ Subscribe(Caller, "notifications", "h2")
  \/ \E c \in 1..MaxProbed :
       Request(Caller, c, ExternalPeer.name, "greeting", NameOf(c), Undefined)
  \/ \E c \in CallIds : BackoffDone(c)
  \/ \E c \in CallIds : TimerFire(c)
  \/ \E c \in CallIds : SendAccepted(c)
  \/ \E d \in BadFrames : Inject(Caller, d)

SpecDecode == InitCalls /\ [][NextDecode]_vars

\* SpecPublish: service-b publishes.  Both services find their peers by
\* multicast; service-b learns of service-a and of a service of another
\* process by their announces, in any order, or not at all; handlers
\* subscribe to "notifications" on service-b at any time.  Any send of the
\* event may be accepted, if somebody listens on its target, or fail.
InitPublish ==
  /\ options = [s \in Services |->
                  [ExampleOptions(s) EXCEPT !.discoveryType = Some("multicast")]]
  /\ Constructed

NextPublish ==
  \/ \E s \in ExampleServices : Start(s)
  \/ AnnounceArrives(Caller, ExternalPeer)
  \/ /\ Subject \in started
     /\ AnnounceArrives(Caller, Config(Subject))
  \/ \E h \in EventHandlers : Subscribe(Caller, "notifications", h)
  \/ \E topic \in Topics : Publish(Caller, topic, "hi")
  \/ \E p \in 1..MaxPubs : PubSendAccepted(p)
  \/ \E p \in 1..MaxPubs : PubSendFailed(p)
  \/ \E p \in 1..MaxPubs : PubHandlerDone(p)

SpecPublish == InitPublish /\ [][NextPublish]_vars

\* SpecLocal: service-b or the service named "publisher" publishes "hi" or
\* "bye" on a topic.  The publishing services find their peers by
\* multicast and learn of service-a, once it has started or before, by its
\* announce, or not at all;
\* handlers subscribe on them at any time.  Any send of the event may be
\* accepted or fail.
Publishers == {Caller, "publisher"}

NextLocal ==
  \/ \E s \in Publishers \cup {Subject} : Start(s)
  \/ \E s \in Publishers : AnnounceArrives(s, Config(Subject))
  \/ \E s \in Publishers, topic \in Topics : Subscribe(s, topic, "h2")
  \/ \E s \in Publishers, topic \in Topics, payload \in {"hi", "bye"} :
       Publish(s, topic, payload)
  \/ \E p \in 1..MaxPubs : PubSendAccepted(p)
  \/ \E p \in 1..MaxPubs : PubSendFailed(p)
  \/ \E p \in 1..MaxPubs : PubHandlerDone(p)

SpecLocal == InitPublish /\ [][NextLocal]_vars

\* SpecSubs: service-a, built with the example's options, with both
\* handlers subscribing to "notifications" and one to "alerts" and any
\* unsubscribing from either topic at any time, while it publishes to
\* "notifications" and receives an EVENT frame of a peer, each handler
\* settling at any time.
NextSubs ==
  \/ Start(Subject)
  \/ \E topic \in Topics, h \in EventHandlers :
       /\ BagCardinality(invoked) < MaxInvoked
       /\ topic = "alerts" => h = "h2"
       /\ Subscribe(Subject, topic, h)
  \/ \E topic \in Topics, h \in {Undefined} \cup {Some(x) : x \in EventHandlers} :
       Unsubscribe(Subject, topic, h)
  \/ Publish(Subject, "notifications", "hi")
  \/ \E p \in 1..MaxPubs : PubHandlerDone(p)
  \/ \E d \in EventFrames :
       /\ Len(tasks) < MaxEvents
       /\ Inject(Subject, d)
  \/ \E t \in 1..MaxTasks : TaskHandlerDone(t)

SpecSubs == InitRouter /\ [][NextSubs]_vars

\* SpecDiscovery: the in-memory discoveries of the two services, used
\* directly: descriptors are registered under three names and none, with
\* either port, and the discoveries are closed, at any time.
DiscoveryNames == {"service-a", "service-b", "service-x", ""}

RegisteredDescriptors ==
  {[name |-> n, port |-> p, host |-> DefaultHost, retries |-> DefaultRetries] :
     n \in DiscoveryNames, p \in {PortA, PortB}}

NextDiscovery ==
  \/ \E s \in ExampleServices, d \in RegisteredDescriptors : DiscoveryRegister(s, d)
  \/ \E s \in ExampleServices : DiscoveryClose(s)

SpecDiscovery == InitRouter /\ [][NextDiscovery]_vars

\* SpecHeartbeat: the MulticastDiscovery of service-b used as an object of
\* its own: descriptors are registered with it, announces of a peer
\* arrive, it is closed, at any time and in any order, and each of its
\* interval timers runs its callback whenever it is due.
NextHeartbeat ==
  \/ \E d \in RegisteredDescriptors : MulticastRegister(Caller, d)
  \/ MulticastClose(Caller)
  \/ \E id \in 1..MaxRegisters : HeartbeatFires(Caller, id)
  \/ AnnounceArrives(Caller, ExternalPeer)

SpecHeartbeat == InitStop /\ [][NextHeartbeat]_vars

\* SpecTransport: the transport TransportFactory has created, a
\* TcpTransport or a UdpTransport, used directly: it listens, sends to two
\* targets and is closed, twice too, at any time; a client connects to
\* the server and leaves, connections come to stand or fail.
Only(k) == \A o \in TransportKinds \ {k} : transports[o] = NoTransport

NextTransport ==
  \/ Only("tcp") /\ TcpListen
  \/ \E clientId \in ClientIds : Only("tcp") /\ TcpAccept(clientId)
  \/ \E i \in 1..(MaxSends + MaxAccepts) : TcpSocketClosed(i)
  \/ \E target \in SendTargets : Only("tcp") /\ TcpSend(target)
  \/ \E i \in 1..(MaxSends + MaxAccepts) : TcpConnected(i)
  \/ \E i \in 1..(MaxSends + MaxAccepts) : TcpSocketError(i)
  \/ Only("tcp") /\ TcpClose
  \/ Only("udp") /\ UdpListen
  \/ \E target \in SendTargets : Only("udp") /\ UdpSend(target)
  \/ Only("udp") /\ UdpClose

SpecTransport == InitRouter /\ [][NextTransport]_vars

(***************************************************************************)
(* Properties of the calls of a service (Spec)                             *)
(***************************************************************************)
\* C1: a call configured with R retries, R >= 0, R being options.retries
\* or else the retries of the service configuration, makes at most R
\* sends.
C1_AtMostRSends ==
  \A c \in CallIds :
    LET R == IF calls[c].opt # Undefined THEN calls[c].opt[1]
             ELSE Config(calls[c].caller).retries
    IN (calls[c].st # "idle" /\ R >= 0) => calls[c].sends <= R

\* C2: the entry of a call's attempt and the attempt's deadline timer go
\* together: the timer of the call's attempt is armed exactly while the
\* table holds the entry of the call.
C2_EntryAndTimerTogether ==
  \A c \in CallIds :
    calls[c].st # "idle" =>
      (att[c].timer = "armed"
         <=> ReqId(c) \in DOMAIN pendingRequests[calls[c].caller])

\* C7: a call whose peer name the discovery does not resolve is rejected
\* with NOT_FOUND and has made no send, created no attempt (no timer, no
\* entry) and gone through no round of the retry loop.
C7_UnresolvedIsNotFound ==
  \A c \in CallIds :
    (/\ calls[c].st \notin {"idle", "discover"}
     /\ Discover(calls[c].caller, calls[c].name) = Undefined)
      => /\ calls[c].st = "rejected"
         /\ calls[c].status = NOT_FOUND
         /\ calls[c].sends = 0
         /\ calls[c].i = 0
         /\ att[c] = NoAttempt
         /\ stale[c] = {}
         /\ ReqId(c) \notin DOMAIN pendingRequests[calls[c].caller]

\* a call rejected for its unresolved name, under either discovery
C7_Witness ==
  \E c \in CallIds :
    /\ calls[c].st = "rejected"
    /\ calls[c].value = "Service not found"
    /\ Discover(calls[c].caller, calls[c].name) = Undefined
    /\ Caller \in started

\* C8: the send failure of an attempt whose timer has fired changes
\* neither the table of pending calls nor any timer.
C8_StaleSendFailureIgnored ==
  [][\A c \in CallIds : \A e \in stale[c] :
       (e.timer = "fired" /\ StaleSendFailed(c, e))
         => UNCHANGED <<pendingRequests, att>>]_vars

\* C10: a RESPONSE whose id has no entry in the table is dropped: no call
\* is settled, the table stays as it is, no handler is invoked, nothing is
\* reported and no frame is sent.
C10_UnmatchedResponseDropped ==
  [][\A s \in Services :
     \A d \in ResponseFrames \cup {f.data : f \in BagToSet(net)} :
       (/\ Deserialize(d).ok
        /\ Deserialize(d).msg.type = RESPONSE
        /\ Deserialize(d).msg.id \notin DOMAIN pendingRequests[s]
        /\ Receive(s, d))
         => /\ UNCHANGED <<pendingRequests, calls, att, stale, tasks, pubs,
                           invoked, handled, observed>>
            /\ \A f \in BagToSet(net') :
                 CopiesIn(f, net') <= CopiesIn(f, net)]_vars

\* responses were dropped for the id of a call that had timed out or
\* would do so and for an id never issued, the route named by their
\* target being registered
C10_Witness ==
  /\ \E c \in CallIds :
       /\ calls[c].st = "rejected"
       /\ calls[c].value = "Request timed out"
       /\ ReqId(c) \in ignored
  /\ MaxCalls + 1 \in ignored
  /\ "greeting" \in DOMAIN routes[Caller]

\* C13: the table holds an entry under an id only while the call with
\* that id is outstanding, and that entry (the only one under the id, the
\* table being a map) is the one of the call's pending attempt; once
\* request() has settled, resolved or rejected, no entry of its id is left.
C13_EntryOnlyWhileOutstanding ==
  /\ \A s \in Services : \A x \in DOMAIN pendingRequests[s] :
       LET c == pendingRequests[s][x].call
       IN /\ ReqId(c) = x
          /\ calls[c].caller = s
          /\ calls[c].st = "attempt"
          /\ pendingRequests[s][x].k = att[c].k
          /\ att[c].promise = "pending"
  /\ \A c \in CallIds :
       calls[c].st \in {"resolved", "rejected"}
         => \A s \in Services : ReqId(c) \notin DOMAIN pendingRequests[s]

\* a call of two rounds whose second send failed: rejected, no entry left
C13_Witness ==
  \E c \in CallIds :
    /\ calls[c].st = "rejected"
    /\ calls[c].value = "Failed to send message"
    /\ calls[c].retries = 2 /\ calls[c].i = 1
    /\ ReqId(c) \notin DOMAIN pendingRequests[Caller]

(***************************************************************************)
(* Properties of concurrent calls (SpecCalls)                              *)
(***************************************************************************)
\* C11: a RESPONSE whose id has an entry in the table settles the attempt
\* of the call stored under that id, with the payload of that response
\* when its status is OK and with its status otherwise, and leaves every
\* other call as it is: its entry, its timer, its attempt and its outcome.
C11_ResponseSettlesOwnCall ==
  [][\A d \in CallResponses :
       LET m == Deserialize(d).msg
       IN (/\ m.id \in DOMAIN pendingRequests[Caller]
           /\ Receive(Caller, d))
            => LET c == pendingRequests[Caller][m.id].call
               IN /\ ReqId(c) = m.id
                  /\ \A b \in CallIds \ {c} :
                       /\ calls'[b] = calls[b]
                       /\ att'[b] = att[b]
                       /\ ReqId(b) \in DOMAIN pendingRequests'[Caller]
                            <=> ReqId(b) \in DOMAIN pendingRequests[Caller]
                       /\ ReqId(b) \in DOMAIN pendingRequests[Caller]
                            => pendingRequests'[Caller][ReqId(b)]
                                 = pendingRequests[Caller][ReqId(b)]
                  /\ att[c].promise = "pending" =>
                       IF m.status = OK
                       THEN /\ att'[c].promise = "resolved"
                            /\ att'[c].value = Reply(ReqId(c))
                            /\ calls'[c].st = "resolved"
                            /\ calls'[c].value = Reply(ReqId(c))
                       ELSE /\ att'[c].promise = "rejected"
                            /\ att'[c].status =
                                 (IF m.status = 0 THEN INTERNAL_ERROR
                                  ELSE m.status)]_vars

\* both calls were outstanding, each with its entry and its armed timer;
\* the response to the second came first and resolved the second call
\* with its own greeting while the first still waits untouched
C11_Witness ==
  /\ calls[1].st = "attempt" /\ att[1].timer = "armed"
  /\ att[1].promise = "pending"
  /\ ReqId(1) \in DOMAIN pendingRequests[Caller]
  /\ calls[2].st = "resolved" /\ calls[2].value = Reply(ReqId(2))
  /\ calls[2].value # Reply(ReqId(1))
  /\ ReqId(2) \notin DOMAIN pendingRequests[Caller]

(***************************************************************************)
(* Properties of calls to a silent peer (SpecSilent)                       *)
(***************************************************************************)
\* call c has been rejected for its deadline, every round of its loop
\* having ended by the deadline of its attempt
TimedOut(c) ==
  /\ calls[c].st = "rejected"
  /\ calls[c].status = INTERNAL_ERROR
  /\ calls[c].value = "Request timed out"
  /\ att[c].timer = "fired"
  /\ att[c].k = calls[c].retries
  /\ calls[c].sends = calls[c].retries

\* C12: a call that has started a send, every send being accepted and no
\* response ever coming, is eventually rejected with INTERNAL_ERROR
\* "Request timed out", after as many deadlines as it has retries, one
\* attempt each; and once it is rejected the table has no entry for its id.
C12_SilentPeerTimesOut ==
  /\ \A c \in CallIds : (calls[c].st = "attempt") ~> TimedOut(c)
  /\ [](\A c \in CallIds :
          calls[c].st = "rejected"
            => ReqId(c) \notin DOMAIN pendingRequests[calls[c].caller])

\* a call of three rounds rejected for its deadline, its sends accepted
C12_Witness ==
  \E c \in CallIds :
    /\ TimedOut(c)
    /\ calls[c].retries = DefaultRetries
    /\ att[c].send = "ok"
    /\ stale[c] = {}

\* C14: a RESPONSE whose id has an entry in the table removes the entry,
\* cancels the armed timer of the entry's attempt and settles the promise
\* of that attempt: resolved with the payload of the response when its
\* status is OK, rejected with the status of the response otherwise
\* (INTERNAL_ERROR for a response without status).  request() returns the
\* payload, or throws the error in its last round.  A settled promise is
\* never settled again.
C14_MatchedResponseSettles ==
  [][/\ \A d \in CallResponses :
          LET m == Deserialize(d).msg
          IN (/\ m.id \in DOMAIN pendingRequests[Caller]
              /\ Receive(Caller, d))
               => LET c == pendingRequests[Caller][m.id].call
                      status == IF m.status = 0 THEN INTERNAL_ERROR
                                ELSE m.status
                  IN /\ m.id \notin DOMAIN pendingRequests'[Caller]
                     /\ att[c].timer = "armed" /\ att'[c].timer = "cleared"
                     /\ att[c].promise = "pending"
                     /\ IF m.status = OK
                        THEN /\ att'[c].promise = "resolved"
                             /\ att'[c].value = m.payload
                             /\ calls'[c].st = "resolved"
                             /\ calls'[c].value = m.payload
                        ELSE /\ att'[c].promise = "rejected"
                             /\ att'[c].status = status
                             /\ calls'[c].st \in {"rejected", "backoff"}
                             /\ calls'[c].st = "rejected"
                                  <=> calls[c].i = calls[c].retries - 1
                             /\ calls'[c].st = "rejected"
                                  => calls'[c].status = status
     /\ \A c \in CallIds :
          (att[c].promise # "pending" /\ att'[c].k = att[c].k)
            => /\ att'[c].promise = att[c].promise
               /\ att'[c].status = att[c].status
               /\ att'[c].value = att[c].value]_vars

\* a call rejected in its last round by a NOT_FOUND response and a call
\* rejected by a response without status, the timers cancelled, the
\* entries removed
C14_Witness ==
  \E c, b \in CallIds :
    /\ calls[c].st = "rejected" /\ calls[c].status = NOT_FOUND
    /\ att[c].timer = "cleared" /\ att[c].k = 2
    /\ calls[b].st = "rejected" /\ calls[b].status = INTERNAL_ERROR
    /\ calls[b].value = "Request failed with status"
    /\ att[b].timer = "cleared"
    /\ pendingRequests[Caller] = <<>>

(***************************************************************************)
(* Properties of the serving of calls (SpecServe)                          *)
(***************************************************************************)
\* C15: the RESPONSE a service gets accepted by its transport for a CALL
\* has the status of the outcome of the dispatch: OK and the value of the
\* handler when the handler returned, INTERNAL_ERROR and the wrapped
\* message when it threw, BAD_REQUEST when the CALL has no target and
\* NOT_FOUND when no handler is registered under its target.
C15_ResponseReflectsOutcome ==
  [][\A t \in DOMAIN tasks :
       TaskSendAccepted(t) =>
         LET m == tasks[t].msg
             r == Deserialize(tasks[t].resp.data).msg
             ran(h) == \E j \in BagToSet(invoked) :
                         j.run = <<"task", t>> /\ j.h = h
         IN /\ r.type = RESPONSE
            /\ ran("greet") =>
                 r.status = OK /\ r.payload = Greeting(m.payload)
            /\ ran("boom") =>
                 /\ r.status = INTERNAL_ERROR
                 /\ r.payload = "Error handling message: boom"
            /\ m.target = "" => r.status = BAD_REQUEST
            /\ (m.target # "" /\ ~ran("greet") /\ ~ran("boom")) =>
                 r.status = NOT_FOUND]_vars

\* C16: every RESPONSE frame a service has sent answers a CALL it
\* received: it has the id of that CALL, the origin of that CALL as its
\* target and the service as its origin, be its status OK or an error;
\* the handling of an EVENT never has a response to send, and no RESPONSE
\* frame has the id of an EVENT only.
C16_ResponseAnswersCall ==
  /\ \A f \in BagToSet(net) :
       LET r == Deserialize(f.data).msg
       IN r.type = RESPONSE =>
            \E t \in DOMAIN tasks :
              /\ tasks[t].msg.type = REQUEST
              /\ r.id = tasks[t].msg.id
              /\ r.target = tasks[t].msg.service
              /\ r.service = tasks[t].svc
              /\ tasks[t].st \in {"done", "sendErr"}
  /\ \A t \in DOMAIN tasks :
       tasks[t].msg.type = EVENT =>
         /\ tasks[t].st \in {"dispatch", "done", "failed"}
         /\ tasks[t].resp = NoFrame
  /\ BagCardinality(net)
       <= Cardinality({t \in DOMAIN tasks : tasks[t].msg.type = REQUEST})

\* an OK response and an error response were sent, each to a CALL, and
\* the handling of an EVENT whose handler threw has ended
C16_Witness ==
  /\ \E f, g \in BagToSet(net) :
       /\ Deserialize(f.data).msg.status = OK
       /\ Deserialize(g.data).msg.status = BAD_REQUEST
  /\ \E t \in DOMAIN tasks :
       tasks[t].msg.type = EVENT /\ tasks[t].st = "failed"

\* C19: register(route, h) leaves h as the handler of the route, whatever
\* handler the route had, and the other routes as they are; a CALL to a
\* route invokes the handler registered last under it, once, with the
\* message of the CALL, and no other handler.  (The table is a map: it
\* has one handler per route.)
C19_LastRegisteredHandles ==
  [][/\ \A h \in RouteHandlers :
          Register(Subject, "greeting", h)
            => /\ routes'[Subject]["greeting"] = h
               /\ DOMAIN routes'[Subject]
                    = DOMAIN routes[Subject] \cup {"greeting"}
     /\ \A d \in CallFrames :
          LET m == Deserialize(d).msg
          IN (/\ m.target \in DOMAIN routes[Subject]
              /\ Receive(Subject, d))
               => invoked' = invoked (+) SetToBag(
                    {Invocation(Subject, routes[Subject][m.target],
                                <<"task", Len(tasks')>>, m)})]_vars

\* "greet" was registered and handled a CALL, then "boom" was registered
\* in its place and handled the next CALL, once
C19_Witness ==
  /\ routes[Subject] = [greeting |-> "boom"]
  /\ \E t, u \in DOMAIN tasks :
       /\ t < u
       /\ tasks[t].msg.type = REQUEST /\ tasks[u].msg.type = REQUEST
       /\ \E j \in BagToSet(invoked) : j.run = <<"task", t>> /\ j.h = "greet"
       /\ \A j \in BagToSet(invoked) : j.run = <<"task", u>> => j.h = "boom"
       /\ \E j \in BagToSet(invoked) :
            j.run = <<"task", u>> /\ CopiesIn(j, invoked) = 1

(***************************************************************************)
(* Properties of publish (SpecPublish)                                     *)
(***************************************************************************)
\* C17: publish has a send to make to each service its discovery lists
\* under another name than its own, one each, and none to itself; each
\* send that settles, accepted or failed, leaves the sends to the
\* remaining peers to make and, after the last, starts the local
\* delivery; an accepted send puts the EVENT frame on its way to that
\* peer, a failed one is reported and puts nothing on its way; publish
\* fails only for a handler of the local delivery that threw.
C17_PublishSendsToEveryPeer ==
  /\ [][\A topic \in Topics :
          Publish(Caller, topic, "hi") =>
            LET ps == pubs'[Len(pubs')].peers
            IN /\ {ps[n] : n \in DOMAIN ps}
                    = {d \in Descriptors(Caller) : d.name # Caller}
               /\ \A i, j \in DOMAIN ps : i # j => ps[i] # ps[j]
               /\ \A n \in DOMAIN ps : TargetOf(ps[n]) # TargetOf(Config(Caller))]_vars
  /\ [][\A p \in DOMAIN pubs :
          (PubSendAccepted(p) \/ PubSendFailed(p)) =>
            /\ pubs'[p].peers = Tail(pubs[p].peers)
            /\ pubs'[p].st # "failed"
            /\ pubs'[p].peers = <<>> =>
                 IF /\ pubs[p].topic \in DOMAIN subscriptions[pubs[p].svc]
                    /\ subscriptions[pubs[p].svc][pubs[p].topic] # <<>>
                 THEN /\ pubs'[p].st = "local"
                      /\ BagCardinality(invoked') = BagCardinality(invoked) + 1
                 ELSE pubs'[p].st = "done"
            /\ PubSendFailed(p) => net' = net
            /\ PubSendAccepted(p) =>
                 net' = Transmit(TargetOf(Head(pubs[p].peers)),
                          Serialize(Msg(PubId(p), EVENT, 0, pubs[p].svc,
                                        pubs[p].topic, pubs[p].payload)))]_vars
  /\ [](\A p \in DOMAIN pubs :
          /\ pubs[p].st \in {"local", "done", "failed"} => pubs[p].peers = <<>>
          /\ pubs[p].st = "failed" =>
               \E j \in BagToSet(invoked) :
                 j.run = <<"pub", p>> /\ Throws(j.h))

\* a publish with two peers is over: the send to the first peer failed,
\* the send to service-a was accepted and the local subscriber was invoked
C17_Witness ==
  \E p \in DOMAIN pubs :
    /\ pubs[p].st = "done"
    /\ Len(registry[Caller]) = 3
    /\ Err(Caller, INTERNAL_ERROR, "Failed to send message") \in handled
    /\ BagCardinality(net) = 1
    /\ \E f \in BagToSet(net) : f.to = TargetOf(Config(Subject))
    /\ \E j \in BagToSet(invoked) : j.run = <<"pub", p>> /\ j.h = "h2"

\* C20: a discover() waiting for a name settles once: when an announce of
\* that name arrives, with the announced descriptor, and request() goes
\* on with the address of that descriptor; when its timeout passes, with
\* null, and request() throws NOT_FOUND.  An announce of another name
\* leaves it waiting, no call goes back to waiting, and every waiting
\* discover() eventually settles.
C20_DiscoverSettlesOnce ==
  /\ [][\A c \in CallIds :
          calls[c].st = "discover" =>
            /\ AnnounceArrives(Caller, ExternalPeer) =>
                 IF calls[c].name = ExternalPeer.name
                 THEN /\ calls'[c].st = "attempt"
                      /\ calls'[c].to = TargetOf(ExternalPeer)
                      /\ att'[c].k = 1
                 ELSE /\ calls'[c] = calls[c]
                      /\ att'[c] = att[c]
            /\ DiscoverTimeout(c) =>
                 /\ calls'[c].st = "rejected"
                 /\ calls'[c].status = NOT_FOUND
                 /\ calls'[c].sends = 0
                 /\ \A b \in CallIds \ {c} : calls'[b] = calls[b]]_vars
  /\ [][\A c \in CallIds :
          calls'[c].st = "discover" => calls[c].st \in {"idle", "discover"}]_vars
  /\ \A c \in CallIds :
       (calls[c].st = "discover") ~> (calls[c].st \notin {"idle", "discover"})

\* the discover() of a call to service-a has timed out although the
\* announce of another service has arrived, and the discover() of a call
\* to that service, made while its name was unknown, has settled with
\* its descriptor
C20_Witness ==
  \E c, b \in CallIds :
    /\ calls[c].name = "service-a" /\ calls[c].st = "rejected"
    /\ calls[c].status = NOT_FOUND
    /\ Discover(Caller, ExternalPeer.name) = Some(ExternalPeer)
    /\ b < c
    /\ calls[b].name = ExternalPeer.name
    /\ calls[b].to = TargetOf(ExternalPeer)

(***************************************************************************)
(* Properties of the in-memory discovery (SpecDiscovery)                   *)
(***************************************************************************)
\* C21: a discovery resolves no name when it is constructed; register(d)
\* makes it resolve the name of d to d, whatever it resolved that name to
\* before, and changes what it resolves no other name to; close() makes
\* it resolve no name; one discovery's calls change nothing in another.
\* So discover(n) returns the descriptor registered last under n since
\* construction or the last close(), and null if there is none.
C21_ResolvesLastRegistered ==
  /\ \A s \in Services : \A n \in DiscoveryNames :
       (registry[s] = <<>>) => Discover(s, n) = Undefined
  /\ [][\A s \in Services :
          /\ \A d \in RegisteredDescriptors :
               (d.name # "" /\ DiscoveryRegister(s, d))
                 => /\ Discover(s, d.name)' = Some(d)
                    /\ \A n \in DiscoveryNames \ {d.name} :
                         Discover(s, n)' = Discover(s, n)
                    /\ \A o \in Services \ {s} : registry'[o] = registry[o]
          /\ DiscoveryClose(s)
               => /\ \A n \in DiscoveryNames : Discover(s, n)' = Undefined
                  /\ \A o \in Services \ {s} : registry'[o] = registry[o]]_vars
  /\ [](\A s \in Services : Discover(s, "") = Undefined)

\* service-a's discovery resolves "service-x", registered after another
\* name, to the descriptor with the second port, and does not resolve
\* "service-b"; service-b's resolves "service-x" to another descriptor
C21_Witness ==
  /\ Len(registry[Subject]) = 2
  /\ registry[Subject][2].name = "service-x"
  /\ Discover(Subject, "service-x") # Undefined
  /\ Discover(Subject, "service-x")[1].port = PortB
  /\ Discover(Subject, "service-b") = Undefined
  /\ Discover(Caller, "service-x") # Undefined
  /\ Discover(Caller, "service-x")[1].port = PortA

(***************************************************************************)
(* Properties of the transports (SpecTransport)                            *)
(***************************************************************************)
\* C22: every close() of a transport, TCP or UDP, the first and any later
\* one, completes without error and leaves the transport with no open
\* socket, no cached connection and no listening server.
C22_CloseIdempotent ==
  [][\A k \in TransportKinds :
       Len(transports'[k].closes) > Len(transports[k].closes)
         => /\ transports'[k].closes[Len(transports'[k].closes)] = "resolved"
            /\ OpenSockets(transports'[k]) = {}
            /\ transports'[k].connections = <<>>
            /\ transports'[k].server # "listening"]_vars

\* the messages a publish delivered to local subscribers, and its wire
\* messages on their way to a peer
LocalDeliveries(p) == {j \in BagToSet(invoked) : j.run = <<"pub", p>>}
WireCopies(p) ==
  {Deserialize(f.data).msg : f \in {g \in BagToSet(net) : g.data.msg.id = PubId(p)}}

\* C23 as stated: the message a publish delivers to its local subscribers
\* has another id and another origin than the message it sends to the
\* peers, whose origin is the name of the publishing service, and the same
\* topic and payload.
C23_LocalEnvelopeDistinct ==
  \A p \in DOMAIN pubs : \A j \in LocalDeliveries(p) :
    LET w == WireMessage(pubs[p].svc, p, pubs[p].topic, pubs[p].payload)
    IN /\ w.service = pubs[p].svc
       /\ j.id # w.id
       /\ j.service # w.service
       /\ j.topic = w.target
       /\ j.payload = w.payload

\* C23, amended: the message a publish delivers to its local subscribers
\* has another id than the message it sends to the peers, the same topic
\* and payload, and the origin "publisher" whoever publishes; the origin of
\* the wire message is the name of the publishing service, so the two
\* origins differ unless that service is itself named "publisher".  The
\* same holds against every copy of the wire message on its way to a peer.
C23_LocalEnvelopeFresh ==
  \A p \in DOMAIN pubs : \A j \in LocalDeliveries(p) :
    LET w == WireMessage(pubs[p].svc, p, pubs[p].topic, pubs[p].payload)
    IN /\ w.service = pubs[p].svc
       /\ j.id # w.id
       /\ j.service = "publisher"
       /\ (j.service # w.service) <=> (pubs[p].svc # "publisher")
       /\ j.topic = w.target
       /\ j.payload = w.payload
       /\ \A c \in WireCopies(p) :
            /\ c = w
            /\ c.type = EVENT
            /\ j.id # c.id

\* service-b has published: the wire message is on its way to service-a
\* and the local subscriber was handed the local message
C23_Witness ==
  \E p \in DOMAIN pubs :
    /\ pubs[p].svc = Caller
    /\ LocalDeliveries(p) # {}
    /\ WireCopies(p) # {}

\* an OK RESPONSE to call c arrives while an attempt of c is outstanding,
\* its frame sent
OkResponseArrives(c) ==
  /\ calls[c].st = "attempt"
  /\ att[c].promise = "pending"
  /\ att[c].send = "ok"
  /\ \E d \in ResponseFrames :
       /\ d.msg.id = ReqId(c)
       /\ d.msg.status = OK
       /\ Inject(calls[c].caller, d)

\* C24: a call is rejected only by the failure of its last attempt, after
\* as many attempts as it has retries, and with the error of that attempt,
\* unless its peer could not be resolved (NOT_FOUND, no attempt made); an
\* attempt that fails earlier leaves the call going into its backoff; an
\* OK RESPONSE to the outstanding attempt of a call resolves the call, and
\* a resolved call makes no further attempt.
C24_FailsOnlyAfterAllAttempts ==
  [][\A c \in CallIds :
       /\ (calls[c].st # "rejected" /\ calls'[c].st = "rejected") =>
            \/ /\ calls[c].st \in {"idle", "discover"}
               /\ calls'[c].status = NOT_FOUND
               /\ calls'[c].sends = 0
            \/ /\ calls'[c].sends >= calls'[c].retries
               /\ calls'[c].sends > 0 =>
                    /\ calls[c].st = "attempt"
                    /\ calls'[c].sends = calls'[c].retries
                    /\ att[c].promise = "pending"
                    /\ att'[c].promise = "rejected"
                    /\ att'[c].k = calls'[c].retries
                    /\ calls'[c].status = att'[c].status
                    /\ calls'[c].value = att'[c].value
       /\ ( /\ calls[c].st = "attempt"
            /\ att[c].promise = "pending" /\ att'[c].promise = "rejected"
            /\ att[c].k < calls[c].retries ) =>
            calls'[c].st = "backoff"
       /\ OkResponseArrives(c) =>
            /\ calls'[c].st = "resolved"
            /\ calls'[c].sends = calls[c].sends
       /\ calls[c].st = "resolved" =>
            /\ calls'[c] = calls[c]
            /\ att'[c].k = att[c].k]_vars

Settled(c) == calls[c].st \in {"resolved", "rejected"}

\* C25: every call of request() eventually settles, resolved or rejected,
\* and stays settled, whether its sends settle or not and whether a
\* RESPONSE arrives or not, as long as its timers fire.
C25_EveryRequestSettles ==
  /\ \A c \in CallIds : (calls[c].st # "idle") ~> Settled(c)
  /\ \A c \in CallIds : [](Settled(c) => []Settled(c))

\* a call was rejected for its deadlines although none of its sends has
\* settled
C25_Witness ==
  \E c \in CallIds :
    /\ TimedOut(c)
    /\ att[c].send = "inflight"
    /\ Cardinality(stale[c]) = calls[c].retries - 1
    /\ calls[c].retries > 1

\* the frames of call c on their way, each as often as it was accepted
FramesOf(c) ==
  {f \in BagToSet(net) : /\ f.data.msg.type = REQUEST
                         /\ f.data.msg.payload = calls[c].payload}

\* C26: every frame a call has sent, by whichever of its attempts, is the
\* same frame: the REQUEST with the id of the call, the name of the caller,
\* the route and the payload, addressed to the peer discovered; a call has
\* sent at most one frame per attempt, and each accepted send, of the
\* latest attempt or of an earlier one, sends that frame once more.
C26_SameFrameOnEveryAttempt ==
  /\ [](\A c \in CallIds : calls[c].st # "idle" =>
          /\ \A f \in FramesOf(c) :
               /\ f.data.msg.id = ReqId(c)
               /\ f = Frame(calls[c].to,
                            Serialize(Msg(ReqId(c), REQUEST, 0, calls[c].caller,
                                          calls[c].route, calls[c].payload)))
               /\ CopiesIn(f, net) <= calls[c].sends
          /\ Cardinality(FramesOf(c)) <= 1)
  /\ [][\A c \in CallIds :
          (SendAccepted(c) \/ \E e \in stale[c] : StaleSendAccepted(c, e)) =>
            /\ FramesOf(c)' # {}
            /\ \A f \in FramesOf(c)' : CopiesIn(f, net') = CopiesIn(f, net) + 1]_vars

\* the sends of three attempts of one call were accepted: one frame, three
\* times on its way
C26_Witness ==
  \E c \in CallIds : \E f \in FramesOf(c) :
    /\ CopiesIn(f, net) = 3
    /\ att[c].k = 3

\* the runs of handleIncomingMessage for a CALL frame
CallTasks == {t \in DOMAIN tasks : tasks[t].msg.type = REQUEST}
\* the handler invocations of run t
RunsOf(t) == {j \in BagToSet(invoked) : j.run = <<"task", t>>}

\* C27: for each CALL frame received the route handler is invoked at most
\* once, and at most one RESPONSE frame is accepted by the transport: an
\* accepted send ends the run; a failed send of the OK response puts no
\* frame on its way, invokes no handler and leaves one send of an error
\* response to make; a failed send of the error response ends the run; a
\* run that is over sends nothing more.
C27_AtMostOneResponsePerCall ==
  /\ [](\A t \in CallTasks :
          /\ Cardinality(RunsOf(t)) <= 1
          /\ \A j \in RunsOf(t) : CopiesIn(j, invoked) = 1)
  /\ [](BagCardinality(net)
          <= Cardinality({t \in CallTasks : tasks[t].st = "done"}))
  /\ [][\A t \in CallTasks :
          /\ tasks'[t].st # tasks[t].st =>
               /\ RunsOf(t)' = RunsOf(t)
               /\ <<tasks[t].st, tasks'[t].st>> \in
                    {<<"sendOk", "done">>, <<"sendOk", "sendErr">>,
                     <<"sendErr", "done">>}
               /\ BagCardinality(net') <= BagCardinality(net) + 1
               /\ BagCardinality(net') = BagCardinality(net) + 1
                    => tasks'[t].st = "done"
          /\ tasks'[t].st = tasks[t].st =>
               \/ net' = net
               \/ \E u \in CallTasks \ {t} : tasks'[u].st # tasks[u].st]_vars

\* the handler has run once for a CALL frame, the send of its OK response
\* failed and the error response sent instead was accepted: one frame
C27_Witness ==
  \E t \in CallTasks :
    /\ tasks[t].st = "done"
    /\ Cardinality(RunsOf(t)) = 1
    /\ Err(tasks[t].svc, INTERNAL_ERROR, "Failed to send message") \in handled
    /\ BagCardinality(net) = 1
    /\ \A f \in BagToSet(net) : f.data.msg.status = INTERNAL_ERROR
    /\ Len(tasks) = 1

\* C28: a CALL or EVENT frame that arrives under the id of a pending call
\* leaves the table of pending calls, the attempts with their timers and
\* the calls as they are, and is routed as any CALL or EVENT is: a CALL
\* starts a run that has the response with its id to send, OK after one
\* invocation of the handler of its route, NOT_FOUND and reported when
\* the route has none; an EVENT starts a run that invokes the first
\* subscriber of its topic, and does nothing when the topic has none.
C28_OnlyResponsesSettle ==
  [][\A d \in CrossFrames :
       LET m == d.msg
           last == tasks'[Len(tasks')]
       IN ( /\ m.type \in {REQUEST, EVENT}
            /\ m.id \in DOMAIN pendingRequests[Caller]
            /\ Inject(Caller, d) ) =>
            /\ pendingRequests' = pendingRequests
            /\ att' = att
            /\ calls' = calls
            /\ m.type = REQUEST =>
                 /\ Len(tasks') = Len(tasks) + 1
                 /\ last.msg = m
                 /\ last.resp.data.msg.id = m.id
                 /\ last.resp.data.msg.type = RESPONSE
                 /\ IF m.target \in DOMAIN routes[Caller]
                    THEN /\ last.st = "sendOk"
                         /\ last.resp.data.msg.status = OK
                         /\ BagCardinality(invoked') = BagCardinality(invoked) + 1
                         /\ handled' = handled
                    ELSE /\ last.st = "sendErr"
                         /\ last.resp.data.msg.status = NOT_FOUND
                         /\ invoked' = invoked
                         /\ Err(Caller, NOT_FOUND,
                                "No handler registered for route") \in handled'
            /\ m.type = EVENT =>
                 IF /\ m.target \in DOMAIN subscriptions[Caller]
                    /\ subscriptions[Caller][m.target] # <<>>
                 THEN /\ Len(tasks') = Len(tasks) + 1
                      /\ last.msg = m
                      /\ last.st = "dispatch"
                      /\ BagCardinality(invoked') = BagCardinality(invoked) + 1
                 ELSE /\ tasks' = tasks
                      /\ invoked' = invoked]_vars

\* a call is pending, its timer armed, while a CALL frame and an EVENT
\* frame that came under its id are being served
C28_Witness ==
  \E c \in CallIds :
    /\ ReqId(c) \in DOMAIN pendingRequests[Caller]
    /\ att[c].timer = "armed"
    /\ \E t, u \in DOMAIN tasks :
         /\ tasks[t].msg.id = ReqId(c) /\ tasks[t].msg.type = REQUEST
         /\ tasks[t].st = "sendOk"
         /\ tasks[u].msg.id = ReqId(c) /\ tasks[u].msg.type = EVENT

\* C29: a frame that is no JSON text, or whose message lacks header.id,
\* header.type or header.service, is reported to the error handler, once,
\* as BAD_REQUEST, and nothing else happens: no handler is invoked, no run
\* is left with a frame to send, no frame is sent, and the pending calls
\* with their attempts, the routes and the subscriptions stay as they are.
C29_UndecodableReportedAndDropped ==
  [][\A d \in BadFrames :
       Inject(Caller, d) =>
         /\ handled' = handled \cup
              {Err(Caller, BAD_REQUEST,
                   IF d = Garbage THEN "Failed to deserialize message"
                   ELSE "Invalid message format")}
         /\ \A e \in handled' \ handled : e.status = BAD_REQUEST
         /\ invoked' = invoked
         /\ tasks' = tasks
         /\ net' = net
         /\ pendingRequests' = pendingRequests
         /\ calls' = calls
         /\ att' = att
         /\ routes' = routes
         /\ subscriptions' = subscriptions
         /\ ignored' = ignored]_vars

\* both kinds of undecodable frame were reported while a call was pending
\* and the route and the topic had their handlers: nothing was served
C29_Witness ==
  /\ Err(Caller, BAD_REQUEST, "Failed to deserialize message") \in handled
  /\ Err(Caller, BAD_REQUEST, "Invalid message format") \in handled
  /\ ReqId(1) \in DOMAIN pendingRequests[Caller]
  /\ "greeting" \in DOMAIN routes[Caller]
  /\ "notifications" \in DOMAIN subscriptions[Caller]
  /\ tasks = <<>>
  /\ invoked = EmptyBag

\* the sockets send() has opened to a target that are not destroyed
LiveSocketsTo(tr, target) ==
  {i \in OpenSockets(tr) : ~tr.sockets[i].inbound /\ tr.sockets[i].key = target}

\* C30: the TCP transport has at most one socket that is not destroyed per
\* target, the one cached under the target.  A send() to a target whose
\* cached socket is not destroyed opens no connection and writes on that
\* socket, at once when its connection stands and as soon as it stands
\* when it is still connecting; any other send() opens one connection,
\* caches its socket under the target and writes on it once it stands.  No
\* send() is given a destroyed socket to write on.
C30_OneLiveSocketPerTarget ==
  /\ [](\A target \in SendTargets :
          LET tr == transports["tcp"]
          IN /\ Cardinality(LiveSocketsTo(tr, target)) <= 1
             /\ \A i \in LiveSocketsTo(tr, target) :
                  target \in DOMAIN tr.connections /\ tr.connections[target] = i)
  /\ [][\A target \in SendTargets :
          TcpSend(target) =>
            LET tr == transports["tcp"]
                after == transports'["tcp"]
                send == after.sends[Len(after.sends)]
            IN /\ Len(after.sends) = Len(tr.sends) + 1
               /\ send.target = target
               /\ after.connections[target] = send.socket
               /\ after.sockets[send.socket].state # "destroyed"
               /\ after.sockets[send.socket].key = target
               /\ send.st = IF after.sockets[send.socket].state = "open"
                            THEN "resolved" ELSE "pending"
               /\ IF LiveSocketsTo(tr, target) # {}
                  THEN /\ after.sockets = tr.sockets
                       /\ after.connections = tr.connections
                       /\ send.socket \in LiveSocketsTo(tr, target)
                  ELSE /\ Len(after.sockets) = Len(tr.sockets) + 1
                       /\ send.socket = Len(after.sockets)
                       /\ after.sockets[send.socket].state = "connecting"
                       /\ \A i \in DOMAIN tr.sockets :
                            after.sockets[i] = tr.sockets[i]]_vars

\* three sends to one target: the second was written on the socket of the
\* first while it was connecting, and the third, that socket destroyed,
\* on a socket of its own
C30_Witness ==
  LET tr == transports["tcp"]
  IN /\ Len(tr.sends) = 3
     /\ \A n \in 1..3 : tr.sends[n].target = <<DefaultHost, PortA>>
     /\ tr.sends[1].socket = tr.sends[2].socket
     /\ tr.sends[3].socket # tr.sends[1].socket
     /\ tr.sockets[tr.sends[1].socket].state = "destroyed"
     /\ tr.sends[1].st = "resolved" /\ tr.sends[2].st = "resolved"
     /\ tr.sends[3].st = "resolved"

\* C31: once stop() of a service has completed, the service has no pending
\* call and none of its attempts has its timer armed, whatever its calls
\* were doing when it was stopped, and from then on none of its calls
\* starts a further attempt with its send.
C31_StopEndsCalls ==
  [][\A s \in stopped' :
       /\ pendingRequests'[s] = <<>>
       /\ \A c \in CallIds : calls'[c].caller = s =>
            /\ att'[c].timer # "armed"
            /\ s \in stopped => att'[c].k = att[c].k]_vars

\* the names a service may know a peer by
PeerNames == Services \cup {ExternalPeer.name}

\* C32: a name that a multicast discovery resolves, stored by register()
\* or by a service-announce that arrived, is resolved by it after every
\* step but a close() of that discovery; and a request() to a name that
\* is resolved goes on at once to its first attempt, at the address
\* stored, without waiting for the answer to a query.
C32_LearnedPeerStays ==
  [][\A s \in Services : \A name \in PeerNames :
       (DiscoveryType(s) = "multicast" /\ Discover(s, name) # Undefined) =>
         /\ \/ Discover(s, name)' # Undefined
            \/ /\ discovery[s].socket = "open"
               /\ discovery'[s].socket = "closed"
         /\ \A c \in CallIds :
              Request(s, c, name, "greeting", "World", Undefined) =>
                /\ calls'[c].st = "attempt"
                /\ calls'[c].to = TargetOf(Discover(s, name)[1])
                /\ att'[c].k = 1]_vars

\* service-b knows itself by its register() and service-x by an announce,
\* the second call to service-x is in its first attempt and the first is
\* over
C32_Witness ==
  /\ Discover(Caller, Caller) # Undefined
  /\ Discover(Caller, ExternalPeer.name) # Undefined
  /\ stopped = {}
  /\ calls[1].st = "rejected"
  /\ calls[2].st = "attempt" /\ att[2].k = 1

\* C33: a multicast discovery has at most one heartbeat timer running,
\* whatever was registered with it, and none once it is closed: from then
\* on its heartbeat broadcasts no service-announce.
C33_CloseEndsHeartbeat ==
  [][\A s \in Services :
       /\ Cardinality(discovery'[s].timers) <= 1
       /\ discovery'[s].socket = "closed" => discovery'[s].timers = {}
       /\ discovery[s].socket = "closed" =>
            discovery'[s].sent = discovery[s].sent]_vars

\* C34: the call waits 100 * 2^i ms between its failed attempt i (from 0)
\* and the next, so 100, 200, 400, ...; it starts a delay only after an
\* attempt that failed and was not its last, and none once it is settled;
\* a call in or after attempt i has waited 100 * (2^i - 1) ms in all, so a
\* call of R attempts that all failed has waited 100 * (2^(R-1) - 1) ms.
C34_BackoffDoubles ==
  /\ [](\A c \in CallIds :
          /\ calls[c].waited = 100 * (2^calls[c].i - 1)
          /\ calls[c].sends = 0 => calls[c].waited = 0
          /\ calls[c].st = "backoff" =>
               /\ calls[c].delay = 100 * 2^calls[c].i
               /\ att[c].promise = "rejected"
               /\ calls[c].i < calls[c].retries - 1
          /\ (calls[c].st = "rejected" /\ calls[c].sends > 0) =>
               calls[c].waited = 100 * (2^(calls[c].retries - 1) - 1))
  /\ [][\A c \in CallIds :
          /\ calls'[c].waited # calls[c].waited =>
               /\ calls[c].st = "backoff" /\ calls'[c].st = "attempt"
               /\ calls'[c].i = calls[c].i + 1
               /\ calls'[c].waited = calls[c].waited + 100 * 2^calls[c].i
          /\ (calls[c].st # "backoff" /\ calls'[c].st = "backoff") =>
               /\ calls[c].st = "attempt"
               /\ att'[c].promise = "rejected"
          /\ Settled(c) => calls'[c].waited = calls[c].waited]_vars

\* a call of three attempts was rejected after its delays of 100 and
\* 200 ms
C34_Witness ==
  \E c \in CallIds :
    /\ calls[c].st = "rejected"
    /\ calls[c].retries = 3 /\ calls[c].sends = 3
    /\ calls[c].delay = 200
    /\ calls[c].waited = 300













(***************************************************************************)
(* Properties of the dispatch of events (SpecRouter)                       *)
(***************************************************************************)
\* C3: on a service (whose router has no 'error' listener), a dispatch
\* that began over the subscribers h1 and h2 of a topic, h1 throwing, and
\* that is over, has invoked h2 exactly once with the message of the
\* dispatch; for a publish and for an inbound EVENT alike.  (Dispatches
\* after which the Set is as it was when they began.)
C3_SiblingStillInvoked ==
  /\ \A p \in DOMAIN pubs :
       LET r == pubs[p]
           i == Invocation(r.svc, "h2", <<"pub", p>>,
                           LocalMessage(p, r.topic, r.payload))
       IN (/\ r.st \in {"done", "failed"}
           /\ listeners[r.svc] = 0
           /\ r.it.began \in {<<"h1", "h2">>, <<"h2", "h1">>}
           /\ r.topic \in DOMAIN subscriptions[r.svc]
           /\ subscriptions[r.svc][r.topic] = r.it.began)
            => /\ CopiesIn(i, invoked) = 1
               /\ \A j \in BagToSet(invoked) :
                    (j.run = <<"pub", p>> /\ j.h = "h2") => j = i
  /\ \A t \in DOMAIN tasks :
       LET r == tasks[t]
           i == Invocation(r.svc, "h2", <<"task", t>>, r.msg)
       IN (/\ r.st \in {"done", "failed"}
           /\ listeners[r.svc] = 0
           /\ r.it.began \in {<<"h1", "h2">>, <<"h2", "h1">>}
           /\ r.it.topic \in DOMAIN subscriptions[r.svc]
           /\ subscriptions[r.svc][r.it.topic] = r.it.began)
            => /\ CopiesIn(i, invoked) = 1
               /\ \A j \in BagToSet(invoked) :
                    (j.run = <<"task", t>> /\ j.h = "h2") => j = i

\* C4: Service.publish never completes with an error, whatever the local
\* subscribers of the topic do; the failure of a subscriber it awaited is
\* given to the router's 'error' listener and to nobody else.
C4_PublishNeverFails ==
  \A p \in DOMAIN pubs :
    /\ pubs[p].st # "failed"
    /\ (/\ pubs[p].st = "done"
        /\ \E j \in BagToSet(invoked) : j.run = <<"pub", p>> /\ Throws(j.h))
         => Err(pubs[p].svc, INTERNAL_ERROR, "Error publishing to topic")
              \in observed

\* C9: a dispatch that has come to its end has invoked exactly the
\* handlers that were subscribed to the topic when it began.
C9_DispatchSnapshot ==
  /\ \A p \in DOMAIN pubs :
       pubs[p].st = "done" =>
         {j.h : j \in {x \in BagToSet(invoked) : x.run = <<"pub", p>>}}
           = {pubs[p].it.began[n] : n \in 1..Len(pubs[p].it.began)}
  /\ \A t \in DOMAIN tasks :
       (tasks[t].st = "done" /\ tasks[t].msg.type = EVENT) =>
         {j.h : j \in {x \in BagToSet(invoked) : x.run = <<"task", t>>}}
           = {tasks[t].it.began[n] : n \in 1..Len(tasks[t].it.began)}

(***************************************************************************)
(* Properties of the subscriptions (SpecSubs)                              *)
(***************************************************************************)
\* C18: unsubscribe(t, h) takes h out of the subscribers of t and leaves
\* the other subscribers of t, in their order, and the other topics as
\* they are; unsubscribe(t) takes t with all its subscribers out of the
\* table and leaves the other topics as they are.  An event on t that
\* arrives invokes the first of the subscribers t has then, and a handler
\* is only ever invoked for a topic while it is subscribed to it, or by a
\* dispatch that was under way over the subscribers of t when
\* unsubscribe(t) took them out.
C18_UnsubscribeRemovesOnlyThat ==
  [][/\ \A topic \in Topics, h \in EventHandlers :
          (/\ topic \in DOMAIN subscriptions[Subject]
           /\ Unsubscribe(Subject, topic, Some(h)))
            => /\ DOMAIN subscriptions'[Subject] = DOMAIN subscriptions[Subject]
               /\ subscriptions'[Subject][topic] =
                    SelectSeq(subscriptions[Subject][topic], LAMBDA x : x # h)
               /\ \A u \in DOMAIN subscriptions[Subject] \ {topic} :
                    subscriptions'[Subject][u] = subscriptions[Subject][u]
     /\ \A topic \in Topics :
          (/\ topic \in DOMAIN subscriptions[Subject]
           /\ Unsubscribe(Subject, topic, Undefined))
            => /\ DOMAIN subscriptions'[Subject]
                    = DOMAIN subscriptions[Subject] \ {topic}
               /\ \A u \in DOMAIN subscriptions'[Subject] :
                    subscriptions'[Subject][u] = subscriptions[Subject][u]
     /\ \A d \in EventFrames :
          LET m == Deserialize(d).msg
          IN Receive(Subject, d) =>
               IF /\ m.target \in DOMAIN subscriptions[Subject]
                  /\ subscriptions[Subject][m.target] # <<>>
               THEN invoked' = invoked (+) SetToBag(
                      {Invocation(Subject, Head(subscriptions[Subject][m.target]),
                                  <<"task", Len(tasks')>>, m)})
               ELSE invoked' = invoked
     /\ \A j \in BagToSet(invoked') :
          CopiesIn(j, invoked') > CopiesIn(j, invoked) =>
            \/ /\ j.topic \in DOMAIN subscriptions[j.svc]
               /\ Member(subscriptions[j.svc][j.topic], j.h)
            \/ \E t \in DOMAIN tasks :
                 /\ j.run = <<"task", t>> /\ ~tasks[t].it.live
                 /\ Member(tasks[t].it.rest, j.h)
            \/ \E p \in DOMAIN pubs :
                 /\ j.run = <<"pub", p>> /\ ~pubs[p].it.live
                 /\ Member(pubs[p].it.rest, j.h)]_vars

\* h1 was subscribed to "notifications" and invoked by a publish; an
\* event on "notifications" found h2 alone there and invoked it and not
\* h1; "notifications" is out of the table, "alerts" still has h2
C18_Witness ==
  /\ DOMAIN subscriptions[Subject] = {"alerts"}
  /\ subscriptions[Subject]["alerts"] = <<"h2">>
  /\ \E j \in BagToSet(invoked) :
       j.run = <<"pub", 1>> /\ j.h = "h1" /\ j.topic = "notifications"
  /\ \E t \in DOMAIN tasks :
       /\ tasks[t].st = "done" /\ tasks[t].msg.target = "notifications"
       /\ tasks[t].it.began = <<"h2">>
       /\ \A j \in BagToSet(invoked) : j.run = <<"task", t>> => j.h = "h2"
       /\ \E j \in BagToSet(invoked) : j.run = <<"task", t>>

(***************************************************************************)
(* Properties of the example (SpecE2E)                                     *)
(***************************************************************************)
\* C5: the request of service-b to route "greeting" of service-a with
\* name "World" eventually resolves with the greeting "Hello, World!".
C5_EventuallyGreeting ==
  <>(\E c \in CallIds :
       /\ calls[c].st = "resolved"
       /\ calls[c].value = Greeting("World"))

\* C6: after service-b has published "hi" to "notifications", the handler
\* service-a subscribed to that topic ends up invoked exactly once, with
\* payload "hi".
C6_EventuallyNotifiedOnce ==
  <>[](\E i \in BagToSet(invoked) :
         /\ i.svc = Subject /\ i.h = "h2"
         /\ i.topic = "notifications" /\ i.payload = "hi"
         /\ CopiesIn(i, invoked) = 1
         /\ \A j \in BagToSet(invoked) :
              (j.svc = Subject /\ j.h = "h2") => j = i)

====
